---- MODULE Spec2Model ----
(***************************************************************************)
(* bmw-saver: a control loop that scales Kubernetes node pools down during *)
(* off-hours and restores them during work hours.                          *)
(*                                                                         *)
(* The module models                                                       *)
(*   - the GKE and EKS scaling providers (ScaleNodePool / RestoreNodePool) *)
(*     together with the ConfigMap based saved-state store,                *)
(*   - the scaling controller: construction, reconcile tick and live       *)
(*     configuration update,                                               *)
(*   - the schedule providers: static, Google Calendar, ICS and composite. *)
(* The cloud APIs and the Kubernetes API server are the environment: their *)
(* responses are inputs of the actions.                                    *)
(***************************************************************************)
EXTENDS Integers, Sequences, FiniteSets, TLC

\* ------------------------------------------------------------------------
\* Bounds
\* ------------------------------------------------------------------------
MaxNodes == 2          \* largest pool size / autoscaling bound considered
MaxCordoned == 1       \* at most this many nodes of a pool are cordoned
MaxMembers == 3        \* longest list of composite member providers
MaxDays == 7           \* days covered by the instants considered
MaxEvents == 2         \* most events a calendar source serves
MaxGoroutines == 2     \* goroutines calling getEKSClient at once
MaxTasks == 3          \* most backgroundSync goroutines followed
MaxPods == 3           \* most pods in the cluster when a node is drained

Sizes == 0..MaxNodes

VARIABLES
    cluster,     \* "gke" | "eks" | "none": the cloud the cluster runs in
    nodePools,   \* GKE API: pool name -> NodePool
    nodeGroups,  \* EKS API: node group name -> Nodegroup
    nodes,       \* Kubernetes API: pool label -> [count, cordoned]
    configMaps,  \* Kubernetes API: pool name -> saved-state ConfigMap
    config,      \* ScalingController.config
    providers,   \* ScalingController.providers: pool name -> provider kind
    scheduler,   \* ScalingController.scheduler: the composite's members
    returned,    \* the last call of NewScalingController / UpdateConfig, and its error
    tick,        \* position of the reconcile tick in progress
    last,        \* pool name -> the last provider invocation for it
    hist,        \* pool name -> the provider invocation before the last
    logs,        \* log lines written by the current reconcile tick
    members,     \* composite provider under test: outcomes of its members
    result,      \* schedule provider under test: last IsWorkTime result
    schedule,    \* static or calendar provider under test
    now,         \* the instant IsWorkTime is asked about
    feed,        \* the events the calendar source serves
    sync,        \* calendar provider under test: its refresh and lookup in progress
    eks,         \* AWSProvider under test: eksClients, clientMu and the calls in progress
    drain,       \* DrainNode under test: the pods and the call in progress
    goroutines,  \* ScalingController.mu and the goroutines of Run and UpdateConfig
    backgroundSync, \* the backgroundSync goroutines that are running
    watcher      \* config.Watcher: callbacks, and what the last change led to

vars == <<cluster, nodePools, nodeGroups, nodes, configMaps, config,
          providers, scheduler, returned, tick, last, hist, logs, members, result,
          schedule, now, feed, sync, eks, drain, goroutines, backgroundSync,
          watcher>>

\* ------------------------------------------------------------------------
\* Data
\* ------------------------------------------------------------------------
PoolNames == {"p1", "p2"}

\* *container.NodePoolAutoscaling; nil is the nil pointer
NilAutoscaling == [nil |-> TRUE, Enabled |-> FALSE, MinNodeCount |-> 0, MaxNodeCount |-> 0]
Autoscaling(enabled, min, max) ==
    [nil |-> FALSE, Enabled |-> enabled, MinNodeCount |-> min, MaxNodeCount |-> max]
AutoscalingValues ==
    {NilAutoscaling, Autoscaling(FALSE, 0, 0), Autoscaling(TRUE, 1, MaxNodes)}

\* *container.NodePool as returned by NodePools.List
NoNodePool == [present |-> FALSE, InitialNodeCount |-> 0, Autoscaling |-> NilAutoscaling]
NodePool(n, as) == [present |-> TRUE, InitialNodeCount |-> n, Autoscaling |-> as]

\* types.Nodegroup.ScalingConfig as returned by DescribeNodegroup
NoNodegroup == [present |-> FALSE, MinSize |-> 0, MaxSize |-> 0, DesiredSize |-> 0]
Nodegroup(min, max, desired) ==
    [present |-> TRUE, MinSize |-> min, MaxSize |-> max, DesiredSize |-> desired]

\* corev1.ConfigMap holding the saved state; data is the "config" entry
NoConfigMap == [present |-> FALSE, data |-> {}]
ConfigMap(data) == [present |-> TRUE, data |-> data]

\* ------------------------------------------------------------------------
\* Saved-state encoding (encoding/json).  A JSON document is modelled as the
\* set of its <<path, number>> members; a member that the encoder omits is
\* absent from the set and decodes to the zero value.
\* ------------------------------------------------------------------------
Member(doc, key) == IF \E m \in doc : m[1] = key
                    THEN (CHOOSE m \in doc : m[1] = key)[2] ELSE 0
Has(doc, key) == \E m \in doc : m[1] = key

\* the autoscaling member is never written
encodeNodePoolConfigNoAutoscaling(cfg) == {<<"nodeCount", cfg.NodeCount>>}

\* NodePoolConfig{NodeCount, Autoscaling}: nodeCount is always written,
\* autoscaling is omitted when nil, its members are omitted when zero/false
encodeNodePoolConfig(cfg) ==
    {<<"nodeCount", cfg.NodeCount>>}
    \cup (IF cfg.Autoscaling.nil THEN {} ELSE
            {<<"autoscaling", 1>>}
            \cup (IF cfg.Autoscaling.Enabled THEN {<<"autoscaling.enabled", 1>>} ELSE {})
            \cup (IF cfg.Autoscaling.MinNodeCount # 0
                  THEN {<<"autoscaling.minNodeCount", cfg.Autoscaling.MinNodeCount>>} ELSE {})
            \cup (IF cfg.Autoscaling.MaxNodeCount # 0
                  THEN {<<"autoscaling.maxNodeCount", cfg.Autoscaling.MaxNodeCount>>} ELSE {}))

\* json.Unmarshal into NodePoolConfig
decodeNodePoolConfig(doc) ==
    [NodeCount |-> Member(doc, "nodeCount"),
     Autoscaling |->
        IF ~Has(doc, "autoscaling") THEN NilAutoscaling
        ELSE Autoscaling(Has(doc, "autoscaling.enabled"),
                         Member(doc, "autoscaling.minNodeCount"),
                         Member(doc, "autoscaling.maxNodeCount"))]

\* NodeGroupConfig{DesiredSize, Autoscaling{MinSize, MaxSize}}: the AWS type
\* has no omitempty tags, every member is written (nil pointers as null)
encodeNodeGroupConfig(cfg) ==
    {<<"desiredSize", cfg.DesiredSize>>}
    \cup (IF cfg.Autoscaling.nil THEN {} ELSE
            {<<"autoscaling", 1>>,
             <<"autoscaling.MinSize", cfg.Autoscaling.MinSize>>,
             <<"autoscaling.MaxSize", cfg.Autoscaling.MaxSize>>})

\* json.Unmarshal into NodeGroupConfig
decodeNodeGroupConfig(doc) ==
    [DesiredSize |-> Member(doc, "desiredSize"),
     Autoscaling |->
        IF ~Has(doc, "autoscaling") THEN [nil |-> TRUE, MinSize |-> 0, MaxSize |-> 0]
        ELSE [nil |-> FALSE,
              MinSize |-> Member(doc, "autoscaling.MinSize"),
              MaxSize |-> Member(doc, "autoscaling.MaxSize")]]

\* ------------------------------------------------------------------------
\* Errors
\* ------------------------------------------------------------------------
\* error values returned by a client call of the GKE API
NoApiError == [kind |-> "nil", Code |-> 0, reason |-> ""]
GoogleApiError(code, reason) == [kind |-> "googleapi", Code |-> code, reason |-> reason]
OtherApiError == [kind |-> "other", Code |-> 0, reason |-> ""]
ApiResponses ==
    {NoApiError,
     GoogleApiError(400, "CLUSTER_ALREADY_HAS_OPERATION"),
     GoogleApiError(400, "INVALID_ARGUMENT"),
     GoogleApiError(409, "CLUSTER_ALREADY_HAS_OPERATION"),
     OtherApiError}

\* error values returned by the providers
Nil == [type |-> "nil", msg |-> ""]
Error(msg) == [type |-> "errorString", msg |-> msg]
ErrNoSavedState == [type |-> "ErrNoSavedState", msg |-> "no saved state found for node pool"]

IsNoSavedStateErrorAny(err) == err.type # "nil"
IsNoSavedStateError(err) == err.type = "ErrNoSavedState"

isClusterBusy(err) ==
    /\ err.kind = "googleapi"
    /\ err.Code = 400
    /\ err.reason = "CLUSTER_ALREADY_HAS_OPERATION"

\* ------------------------------------------------------------------------
\* One provider invocation works on the slice of the world that belongs to
\* one pool name: s = [pool, group, nodes, cm, calls, err].  calls is the
\* sequence of requests it has issued, in order.
\* ------------------------------------------------------------------------
Min(a, b) == IF a < b THEN a ELSE b

\* a request; saved tells whether the pool's saved-state record existed when
\* the request was issued
Call(api, n, min, max, enabled, outcome, s) ==
    [api |-> api, n |-> n, min |-> min, max |-> max, enabled |-> enabled,
     outcome |-> outcome, saved |-> s.cm.present]

Issue(s, call) == [s EXCEPT !.calls = Append(@, call)]
Fail(s, msg) == [s EXCEPT !.err = Error(msg)]

MutatingApis == {"SetSize", "SetAutoscaling", "UpdateNodegroupConfig"}
Mutations(cs) == SelectSeq(cs, LAMBDA c : c.api \in MutatingApis)

\* ------------------------------------------------------------------------
\* Saved-state store
\* ------------------------------------------------------------------------
\* an existing ConfigMap is overwritten
CreateConfigMapOverwrite(s, data, fails) ==
    IF fails
    THEN Fail(Issue(s, Call("CreateConfigMap", -1, -1, -1, FALSE, "err", s)),
              "failed to create ConfigMap")
    ELSE [Issue(s, Call("CreateConfigMap", -1, -1, -1, FALSE, "ok", s))
            EXCEPT !.cm = ConfigMap(data)]

\* Create; an AlreadyExists answer is success and leaves the record alone
CreateConfigMap(s, data, fails) ==
    IF fails
    THEN Fail(Issue(s, Call("CreateConfigMap", -1, -1, -1, FALSE, "err", s)),
              "failed to create ConfigMap")
    ELSE IF s.cm.present
    THEN Issue(s, Call("CreateConfigMap", -1, -1, -1, FALSE, "exists", s))
    ELSE [Issue(s, Call("CreateConfigMap", -1, -1, -1, FALSE, "ok", s))
            EXCEPT !.cm = ConfigMap(data)]

\* ------------------------------------------------------------------------
\* GKE provider
\* ------------------------------------------------------------------------
GKEPreSites == {"none", "list", "nodes", "drain", "saveList", "create"}
\* the answers of one invocation: the first failing request before the GKE
\* requests, else the answers to SetAutoscaling and SetSize (a request that
\* is not reached has no answer, written NoApiError)
GKEScaleResponses ==
    {r \in [pre : GKEPreSites, setAutoscaling : ApiResponses, setSize : ApiResponses] :
        /\ r.pre # "none" => r.setAutoscaling = NoApiError /\ r.setSize = NoApiError
        /\ r.setAutoscaling.kind # "nil" /\ ~isClusterBusy(r.setAutoscaling)
              => r.setSize = NoApiError}

\* NodePools.SetSize answered without error: the pool has the new size, its
\* nodes follow later (NodesConverge)
ApplySetSize(s, n) == [s EXCEPT !.pool.InitialNodeCount = n]

\* NodePools.SetAutoscaling answered without error
ApplySetAutoscaling(s, as) == [s EXCEPT !.pool.Autoscaling = as]

updateNodePool(s, count, r) ==
    LET call(o) == Call("SetSize", count, -1, -1, FALSE, o, s) IN
    IF r.kind # "nil"
    THEN IF isClusterBusy(r)
         THEN Issue(s, call("busy"))
         ELSE Fail(Issue(s, call("err")), "failed to update node pool")
    ELSE ApplySetSize(Issue(s, call("ok")), count)

disableAutoscaling(s, r) ==
    LET call(o) == Call("SetAutoscaling", -1, 0, 0, FALSE, o, s) IN
    IF r.kind # "nil"
    THEN IF isClusterBusy(r)
         THEN Issue(s, call("busy"))
         ELSE Fail(Issue(s, call("err")), "failed to disable autoscaling for node pool")
    ELSE ApplySetAutoscaling(Issue(s, call("ok")), Autoscaling(FALSE, 0, 0))

\* the record of an earlier scale-down is replaced
saveNodePoolConfigOverwrites(s, resp) ==
    IF resp.pre = "saveList" THEN Fail(s, "failed to list node pools")
    ELSE IF ~s.pool.present THEN Fail(s, "node pool not found")
    ELSE LET cfg == [NodeCount |-> s.pool.InitialNodeCount,
                     Autoscaling |-> s.pool.Autoscaling]
         IN  CreateConfigMapOverwrite(s, encodeNodePoolConfig(cfg), resp.pre = "create")

saveNodePoolConfig(s, resp) ==
    IF resp.pre = "saveList" THEN Fail(s, "failed to list node pools")
    ELSE IF ~s.pool.present THEN Fail(s, "node pool not found")
    ELSE LET cfg == [NodeCount |-> s.pool.InitialNodeCount,
                     Autoscaling |-> s.pool.Autoscaling]
             s1 == CreateConfigMap(s, encodeNodePoolConfig(cfg), resp.pre = "create")
         IN s1

\* drain every cordoned node of the pool; the first failure ends the loop
DrainCordoned(s, resp) ==
    IF s.nodes.cordoned = 0 THEN s
    ELSE IF resp.pre = "drain"
    THEN Fail(Issue(s, Call("DrainNode", -1, -1, -1, FALSE, "err", s)), "failed to drain node")
    ELSE [s EXCEPT !.calls = @ \o [i \in 1..s.nodes.cordoned |->
                                     Call("DrainNode", -1, -1, -1, FALSE, "ok", s)]]

\* the size is set before the state is saved
GKEScaleNodePoolSetsFirst(s, count, resp) ==
    IF resp.pre = "list" THEN Fail(s, "failed to list node pools")
    ELSE IF ~s.pool.present THEN s
    ELSE IF s.nodes.count = count THEN s
    ELSE LET s3 == updateNodePool(s, count, resp.setSize)
             s4 == saveNodePoolConfig(s3, resp)
         IN IF s3.err # Nil THEN s3
            ELSE IF s4.err # Nil THEN Fail(s4, "failed to save node pool config")
            ELSE s4

\* no early return when the pool already has the desired size
GKEScaleNodePoolNoSizeCheck(s, count, resp) ==
    IF resp.pre = "list" THEN Fail(s, "failed to list node pools")
    ELSE IF ~s.pool.present THEN s
    ELSE LET s1 == saveNodePoolConfig(DrainCordoned(s, resp), resp)
         IN IF s1.err # Nil THEN Fail(s1, "failed to save node pool config")
            ELSE updateNodePool(s1, count, resp.setSize)

\* a pool that has a saved-state record is taken for scaled down already
GKEScaleNodePoolOnce(s, count, resp) ==
    IF resp.pre = "list" THEN Fail(s, "failed to list node pools")
    ELSE IF ~s.pool.present \/ s.cm.present THEN s
    ELSE IF resp.pre = "nodes" THEN Fail(s, "failed to get nodes in node pool")
    ELSE IF s.nodes.count = count THEN s
    ELSE LET s0 == DrainCordoned(s, resp) IN
         IF s0.err # Nil THEN s0
         ELSE LET s1 == saveNodePoolConfig(s0, resp) IN
         IF s1.err # Nil THEN Fail(s1, "failed to save node pool config")
         ELSE LET s2 == IF ~s.pool.Autoscaling.nil /\ s.pool.Autoscaling.Enabled
                        THEN disableAutoscaling(s1, resp.setAutoscaling)
                        ELSE s1 IN
         IF s2.err # Nil THEN s2
         ELSE updateNodePool(s2, count, resp.setSize)

GKEScaleNodePool(s, count, resp) ==
    IF resp.pre = "list" THEN Fail(s, "failed to list node pools")
    ELSE IF ~s.pool.present THEN s
    ELSE IF resp.pre = "nodes" THEN Fail(s, "failed to get nodes in node pool")
    ELSE IF s.nodes.count = count THEN s
    ELSE LET s0 == DrainCordoned(s, resp) IN
         IF s0.err # Nil THEN s0
         ELSE LET s1 == saveNodePoolConfig(s0, resp) IN
         IF s1.err # Nil THEN Fail(s1, "failed to save node pool config")
         ELSE LET s2 == IF ~s.pool.Autoscaling.nil /\ s.pool.Autoscaling.Enabled
                        THEN disableAutoscaling(s1, resp.setAutoscaling)
                        ELSE s1 IN
         IF s2.err # Nil THEN s2
         ELSE updateNodePool(s2, count, resp.setSize)

GKERestoreResponses ==
    {r \in [pre : {"none", "get", "list"}, api : ApiResponses] :
        r.pre # "none" => r.api = NoApiError}

\* restore's SetAutoscaling(saved autoscaling) request
restoreAutoscaling(s, as, r) ==
    LET call(o) == Call("SetAutoscaling", -1, as.MinNodeCount, as.MaxNodeCount,
                        as.Enabled, o, s) IN
    IF r.kind # "nil"
    THEN IF isClusterBusy(r)
         THEN Issue(s, call("busy"))
         ELSE Fail(Issue(s, call("err")), "failed to restore autoscaling")
    ELSE ApplySetAutoscaling(Issue(s, call("ok")), as)

\* restore's SetSize(saved node count) request
restoreNodeCount(s, n, r) ==
    LET call(o) == Call("SetSize", n, -1, -1, FALSE, o, s) IN
    IF r.kind # "nil"
    THEN IF isClusterBusy(r)
         THEN Issue(s, call("busy"))
         ELSE Fail(Issue(s, call("err")), "failed to restore node count")
    ELSE ApplySetSize(Issue(s, call("ok")), n)

isAutoscalingMatch(cur, saved) ==
    \/ cur.Autoscaling.nil /\ saved.Autoscaling.nil
    \/ /\ ~cur.Autoscaling.nil
       /\ ~saved.Autoscaling.nil
       /\ cur.Autoscaling.Enabled = saved.Autoscaling.Enabled

isNodeCountMatch(cur, saved) ==
    \/ ~saved.Autoscaling.nil /\ saved.Autoscaling.Enabled
    \/ cur.InitialNodeCount = saved.NodeCount

GKERestoreNodePool(s, resp) ==
    IF resp.pre = "get" THEN Fail(s, "failed to get saved config")
    ELSE IF ~s.cm.present THEN [s EXCEPT !.err = ErrNoSavedState]
    ELSE LET savedConfig == decodeNodePoolConfig(s.cm.data) IN
    IF resp.pre = "list" THEN Fail(s, "failed to list node pools")
    ELSE IF ~s.pool.present THEN Fail(s, "node pool not found")
    ELSE IF isAutoscalingMatch(s.pool, savedConfig) /\ isNodeCountMatch(s.pool, savedConfig)
    THEN s
    ELSE IF ~savedConfig.Autoscaling.nil /\ savedConfig.Autoscaling.Enabled
    THEN IF ~isAutoscalingMatch(s.pool, savedConfig)
         THEN restoreAutoscaling(s, savedConfig.Autoscaling, resp.api)
         ELSE s
    ELSE restoreNodeCount(s, savedConfig.NodeCount, resp.api)

\* ------------------------------------------------------------------------
\* EKS provider.  Every failing request ends the invocation, so the answers
\* of one invocation are given by the first request that fails.
\* ------------------------------------------------------------------------
AWSScaleResponses ==
    [pre : {"none", "nodes", "region", "saveNodes", "saveRegion", "saveDescribe",
            "create", "describe", "update1", "nodes2", "wait", "describe2",
            "update2"}]
AWSRestoreResponses == [pre : {"none", "get", "nodes", "region", "update"}]

\* UpdateNodegroupConfig answered without error; -1 stands for a nil member,
\* which leaves the node group's value as it is
ApplyUpdateNodegroupConfig(s, min, max, desired) ==
    [s EXCEPT !.group.MinSize = IF min = -1 THEN @ ELSE min,
              !.group.MaxSize = IF max = -1 THEN @ ELSE max,
              !.group.DesiredSize = IF desired = -1 THEN @ ELSE desired]

UpdateNodegroupConfig(s, min, max, desired, fails, msg) ==
    LET call(o) == Call("UpdateNodegroupConfig", desired, min, max, FALSE, o, s) IN
    IF fails \/ ~s.group.present THEN Fail(Issue(s, call("err")), msg)
    ELSE ApplyUpdateNodegroupConfig(Issue(s, call("ok")), min, max, desired)

saveNodeGroupConfig(s, resp) ==
    IF resp.pre = "saveNodes" THEN Fail(s, "failed to get nodes")
    ELSE IF s.nodes.count = 0 THEN Fail(s, "no nodes found in node group")
    ELSE IF resp.pre = "saveRegion" THEN Fail(s, "failed to get region")
    ELSE IF resp.pre = "saveDescribe" \/ ~s.group.present
    THEN Fail(s, "failed to describe node group")
    ELSE LET cfg == [DesiredSize |-> s.group.DesiredSize,
                     Autoscaling |-> [nil |-> FALSE,
                                      MinSize |-> s.group.MinSize,
                                      MaxSize |-> s.group.MaxSize]]
             s1 == CreateConfigMap(s, encodeNodeGroupConfig(cfg), resp.pre = "create")
         IN s1

\* drain the first len(nodes) - count nodes; a failed drain is only logged
DrainExcess(s, count) ==
    LET nodesToDrain == s.nodes.count - count IN
    IF nodesToDrain > 0
    THEN [s EXCEPT !.calls = @ \o [i \in 1..nodesToDrain |->
                                     Call("DrainNode", -1, -1, -1, FALSE, "ok", s)]]
    ELSE s

AWSScaleNodePool(s, count, resp) ==
    IF resp.pre = "nodes" THEN Fail(s, "failed to get nodes")
    ELSE IF s.nodes.count = 0 THEN Fail(s, "no nodes found in node group")
    ELSE IF resp.pre = "region" THEN Fail(s, "failed to get region")
    ELSE LET s1 == saveNodeGroupConfig(s, resp) IN
    IF s1.err # Nil THEN Fail(s1, "failed to save node group config")
    ELSE IF resp.pre = "describe" \/ ~s1.group.present
    THEN Fail(s1, "failed to describe node group")
    ELSE LET s2 == UpdateNodegroupConfig(s1, count, count, count, resp.pre = "update1",
                                         "failed to update node group scaling config") IN
    IF s2.err # Nil THEN s2
    ELSE IF resp.pre = "nodes2" THEN Fail(s2, "failed to get nodes")
    ELSE LET s3 == DrainExcess(s2, count)
             wait(o) == Call("Wait", -1, -1, -1, FALSE, o, s3) IN
    IF resp.pre = "wait"
    THEN Fail(Issue(s3, wait("err")), "failed waiting for node group to be active")
    ELSE IF resp.pre = "describe2"
    THEN Fail(Issue(s3, wait("ok")), "failed to describe node group after waiting")
    ELSE UpdateNodegroupConfig(Issue(s3, wait("ok")), -1, -1, count,
                               resp.pre = "update2", "failed to scale node group")

AWSRestoreNodePool(s, resp) ==
    IF resp.pre = "get" THEN Fail(s, "failed to get saved config")
    ELSE IF ~s.cm.present THEN [s EXCEPT !.err = ErrNoSavedState]
    ELSE LET savedConfig == decodeNodeGroupConfig(s.cm.data)
             min == IF savedConfig.Autoscaling.nil THEN -1 ELSE savedConfig.Autoscaling.MinSize
             max == IF savedConfig.Autoscaling.nil THEN -1 ELSE savedConfig.Autoscaling.MaxSize
         IN
    IF resp.pre = "nodes" THEN Fail(s, "failed to get nodes")
    ELSE IF s.nodes.count = 0 THEN Fail(s, "no nodes found in node group")
    ELSE IF resp.pre = "region" THEN Fail(s, "failed to get region")
    ELSE UpdateNodegroupConfig(s, min, max, savedConfig.DesiredSize, resp.pre = "update",
                               "failed to restore node group")

\* ------------------------------------------------------------------------
\* Composite work-time provider.  A member's IsWorkTime answer is
\* [isWork, err]; err = "" is the nil error.
\* ------------------------------------------------------------------------
MemberErrors == {"", "InvalidTimeZone", "InvalidTimeFormat"}
MemberResults == [isWork : BOOLEAN, err : MemberErrors]

\* evaluated is the number of members whose IsWorkTime was called
RECURSIVE IsWorkTimeFrom(_, _)
IsWorkTimeFrom(ms, i) ==
    IF i > Len(ms) THEN [isWork |-> TRUE, err |-> "", evaluated |-> Len(ms)]
    ELSE IF ms[i].err # "" THEN [isWork |-> FALSE, err |-> ms[i].err, evaluated |-> i]
    ELSE IF ~ms[i].isWork THEN [isWork |-> FALSE, err |-> "", evaluated |-> i]
    ELSE IsWorkTimeFrom(ms, i + 1)

\* a member that answers false does not end the evaluation
RECURSIVE IsWorkTimeFromNoShortCircuit(_, _, _)
IsWorkTimeFromNoShortCircuit(ms, i, all) ==
    IF i > Len(ms) THEN [isWork |-> all, err |-> "", evaluated |-> Len(ms)]
    ELSE IF ms[i].err # "" THEN [isWork |-> FALSE, err |-> ms[i].err, evaluated |-> i]
    ELSE IsWorkTimeFromNoShortCircuit(ms, i + 1, all /\ ms[i].isWork)

CompositeIsWorkTimeNoShortCircuit(ms) == IsWorkTimeFromNoShortCircuit(ms, 1, TRUE)

CompositeIsWorkTime(ms) == IsWorkTimeFrom(ms, 1)

\* ------------------------------------------------------------------------
\* Time: an instant is a number of hours since a Sunday 00:00 UTC
\* ------------------------------------------------------------------------
HoursPerDay == 24
Instants == 0..(MaxDays * HoursPerDay - 1)

\* time.Weekday: Sunday = 0 ... Saturday = 6
Weekdays == 0..6
Weekday(day) == day % 7

\* time.LoadLocation; a location is a fixed offset from UTC
TimeZones == {"UTC", "Asia/Shanghai", "America/New_York", "Mars/Phobos"}
LoadLocation(name) ==
    CASE name = "UTC" -> [err |-> "", offset |-> 0]
      [] name = "Asia/Shanghai" -> [err |-> "", offset |-> 8]
      [] name = "America/New_York" -> [err |-> "", offset |-> -5]
      [] OTHER -> [err |-> "InvalidTimeZone", offset |-> 0]

\* time.ParseInLocation("15:04", value, location): the hour of a clock value
ClockValues == {"00:00", "09:00", "17:00", "25:00"}
ParseInLocation(value) ==
    CASE value = "00:00" -> [err |-> "", Hour |-> 0]
      [] value = "09:00" -> [err |-> "", Hour |-> 9]
      [] value = "17:00" -> [err |-> "", Hour |-> 17]
      [] OTHER -> [err |-> "InvalidTimeFormat", Hour |-> 0]

\* t.In(location): wall-clock hours since the Sunday 00:00 of the location
In(t, location) == t + location.offset
\* the calendar day of a wall-clock time, and time.Date of an hour on a day
Day(wall) == wall \div HoursPerDay
Date(day, hour) == day * HoursPerDay + hour

\* ------------------------------------------------------------------------
\* StaticProvider
\* ------------------------------------------------------------------------
NoSchedule == [kind |-> "none"]

NilWorkDays == [nil |-> TRUE, days |-> {}]
WorkDays(days) == [nil |-> FALSE, days |-> days]

NewStaticProvider(startTime, endTime, timeZone, workDays) ==
    [kind |-> "static", StartTime |-> startTime, EndTime |-> endTime,
     TimeZone |-> timeZone,
     WorkDays |-> IF workDays.nil THEN 1..5 ELSE workDays.days]

\* the bounds of the working hours belong to them
StaticIsWorkTimeInclusive(p, t) ==
    LET location == LoadLocation(p.TimeZone)
        nowInTz == In(t, location)
        start == ParseInLocation(p.StartTime)
        end == ParseInLocation(p.EndTime)
        startTime == Date(Day(nowInTz), start.Hour)
        endTime == Date(Day(nowInTz), end.Hour)
    IN  IF location.err # "" THEN [isWork |-> FALSE, err |-> location.err]
        ELSE IF Weekday(Day(nowInTz)) \notin p.WorkDays THEN [isWork |-> FALSE, err |-> ""]
        ELSE IF start.err # "" THEN [isWork |-> FALSE, err |-> start.err]
        ELSE IF end.err # "" THEN [isWork |-> FALSE, err |-> end.err]
        ELSE [isWork |-> nowInTz >= startTime /\ nowInTz <= endTime, err |-> ""]

\* a window whose end is not after its start runs over midnight
StaticIsWorkTimeOvernight(p, t) ==
    LET location == LoadLocation(p.TimeZone)
        nowInTz == In(t, location)
        start == ParseInLocation(p.StartTime)
        end == ParseInLocation(p.EndTime)
        startTime == Date(Day(nowInTz), start.Hour)
        endTime == Date(Day(nowInTz), end.Hour)
    IN  IF location.err # "" THEN [isWork |-> FALSE, err |-> location.err]
        ELSE IF Weekday(Day(nowInTz)) \notin p.WorkDays THEN [isWork |-> FALSE, err |-> ""]
        ELSE IF start.err # "" THEN [isWork |-> FALSE, err |-> start.err]
        ELSE IF end.err # "" THEN [isWork |-> FALSE, err |-> end.err]
        ELSE [isWork |-> IF startTime < endTime
                         THEN nowInTz > startTime /\ nowInTz < endTime
                         ELSE nowInTz > startTime \/ nowInTz < endTime,
              err |-> ""]

StaticIsWorkTime(p, t) ==
    LET location == LoadLocation(p.TimeZone)
        nowInTz == In(t, location)
        start == ParseInLocation(p.StartTime)
        end == ParseInLocation(p.EndTime)
        startTime == Date(Day(nowInTz), start.Hour)
        endTime == Date(Day(nowInTz), end.Hour)
    IN  IF location.err # "" THEN [isWork |-> FALSE, err |-> location.err]
        ELSE IF Weekday(Day(nowInTz)) \notin p.WorkDays THEN [isWork |-> FALSE, err |-> ""]
        ELSE IF start.err # "" THEN [isWork |-> FALSE, err |-> start.err]
        ELSE IF end.err # "" THEN [isWork |-> FALSE, err |-> end.err]
        ELSE [isWork |-> nowInTz > startTime /\ nowInTz < endTime, err |-> ""]

\* ------------------------------------------------------------------------
\* Calendar providers (Google Calendar and ICS); all times are in UTC
\* ------------------------------------------------------------------------
CalendarInstants == {t \in 0..36 : t % 6 = 0}

\* t.Format("2006-01-02"): the day an instant falls on
DateKey(t) == Day(t)
DateKeys == {DateKey(t) : t \in CalendarInstants}

Summaries == {"Holiday", "Workday", "Holiday Workday", "Meeting"}
calendarEvent(start, end, summary) == [Start |-> start, End |-> end, Summary |-> summary]
cachedEvent(start, end) == [Start |-> start, End |-> end, Summary |-> ""]

\* an all-day event, one of a day and a half, an afternoon, and one from
\* noon to noon
EventSpans == {<<0, 24>>, <<0, 36>>, <<12, 24>>, <<12, 36>>}
ICSEvents == {calendarEvent(span[1], span[2], summary) :
                 span \in EventSpans, summary \in Summaries}
GoogleItems == {cachedEvent(span[1], span[2]) : span \in EventSpans}
EventLists(events) == UNION {[1..n -> events] : n \in 0..MaxEvents}

\* regexp.MatchString for the patterns used
Patterns == {"Holiday", "Workday"}
MatchString(pattern, summary) ==
    CASE pattern = "Holiday" -> summary \in {"Holiday", "Holiday Workday"}
      [] pattern = "Workday" -> summary \in {"Workday", "Holiday Workday"}
      [] OTHER -> FALSE

\* there is an entry for a date key iff an event was appended to it
NoEvents == [key \in DateKeys |-> <<>>]

\* an event is stored under the date of its start and of every whole day
\* after its start that begins before its end
RECURSIVE storeEvent(_, _, _)
storeEvent(events, entry, current) ==
    IF current < entry.End
    THEN storeEvent([events EXCEPT ![DateKey(current)] = Append(@, entry)],
                    entry, current + HoursPerDay)
    ELSE events

RECURSIVE storeEvents(_, _, _)
storeEvents(events, items, i) ==
    IF i > Len(items) THEN events
    ELSE storeEvents(storeEvent(events, items[i], items[i].Start), items, i + 1)

\* what a fetch of the calendar source answers
SyncErrors == {"", "FetchFailed", "ParseFailed"}
SyncResponse(err, items) == [err |-> err, items |-> items]

ICSCalendarProvider(workPatterns, holidayPatterns, events) ==
    [kind |-> "ics", workPatterns |-> workPatterns,
     holidayPatterns |-> holidayPatterns, offTimeEvents |-> "", events |-> events]

GoogleCalendarProvider(offTimeEvents, events) ==
    [kind |-> "google", workPatterns |-> <<>>, holidayPatterns |-> <<>>,
     offTimeEvents |-> offTimeEvents, events |-> events]

\* the cache is replaced once the calendar is fetched and parsed
ICSSyncEvents(p, resp) ==
    IF resp.err # "" THEN [p |-> p, err |-> resp.err]
    ELSE [p |-> [p EXCEPT !.events = storeEvents(NoEvents, resp.items, 1)], err |-> ""]

\* the cache is cleared before the events are listed
GoogleSyncEvents(p, resp) ==
    LET cleared == [p EXCEPT !.events = NoEvents]
    IN  IF p.offTimeEvents = "" THEN [p |-> cleared, err |-> ""]
        ELSE IF resp.err # "" THEN [p |-> cleared, err |-> resp.err]
        ELSE [p |-> [p EXCEPT !.events = storeEvents(NoEvents, resp.items, 1)], err |-> ""]

Contains(event, t) == ~(t < event.Start) /\ t < event.End

MatchesAny(patterns, summary) ==
    \E i \in 1..Len(patterns) : MatchString(patterns[i], summary)

\* the end instant of an event belongs to it
GoogleIsWorkTimeInclusive(p, t) ==
    LET events == p.events[DateKey(t)]
    IN  IF events = <<>> THEN [isWork |-> TRUE, err |-> ""]
        ELSE [isWork |-> ~\E i \in 1..Len(events) :
                              ~(t < events[i].Start) /\ ~(events[i].End < t),
              err |-> ""]

GoogleIsWorkTime(p, t) ==
    LET events == p.events[DateKey(t)]
    IN  IF events = <<>> THEN [isWork |-> TRUE, err |-> ""]
        ELSE [isWork |-> ~\E i \in 1..Len(events) : Contains(events[i], t),
              err |-> ""]

RECURSIVE ICSScan(_, _, _, _)
ICSScan(p, events, i, t) ==
    IF i > Len(events) THEN TRUE
    ELSE IF Contains(events[i], t) /\ MatchesAny(p.holidayPatterns, events[i].Summary)
         THEN FALSE
    ELSE IF Contains(events[i], t) /\ MatchesAny(p.workPatterns, events[i].Summary)
         THEN TRUE
    ELSE ICSScan(p, events, i + 1, t)

\* work-day patterns are tested before holiday patterns
RECURSIVE ICSScanWorkFirst(_, _, _, _)
ICSScanWorkFirst(p, events, i, t) ==
    IF i > Len(events) THEN TRUE
    ELSE IF Contains(events[i], t) /\ MatchesAny(p.workPatterns, events[i].Summary)
         THEN TRUE
    ELSE IF Contains(events[i], t) /\ MatchesAny(p.holidayPatterns, events[i].Summary)
         THEN FALSE
    ELSE ICSScanWorkFirst(p, events, i + 1, t)

ICSIsWorkTimeWorkFirst(p, t) ==
    LET events == p.events[DateKey(t)]
    IN  IF events = <<>> THEN [isWork |-> TRUE, err |-> ""]
        ELSE [isWork |-> ICSScanWorkFirst(p, events, 1, t), err |-> ""]

ICSIsWorkTime(p, t) ==
    LET events == p.events[DateKey(t)]
    IN  IF events = <<>> THEN [isWork |-> TRUE, err |-> ""]
        ELSE [isWork |-> ICSScan(p, events, 1, t), err |-> ""]

\* ------------------------------------------------------------------------
\* The world, one pool at a time
\* ------------------------------------------------------------------------
NoNodes == [count |-> 0, cordoned |-> 0]

World(p) == [pool |-> nodePools[p], group |-> nodeGroups[p], nodes |-> nodes[p],
             cm |-> configMaps[p], calls |-> <<>>, err |-> Nil]

NoInvocation == [op |-> "none", count |-> -1, err |-> Nil, calls |-> <<>>]

Invocation(op, count, s) ==
    [op |-> op, count |-> count, err |-> s.err, calls |-> s.calls]

\* the requests of an invocation were all answered without error
Applied(inv) == \A i \in 1..Len(inv.calls) : inv.calls[i].outcome \in {"ok", "exists"}

\* what is remembered of the invocation before the last one: its operation,
\* if it returned no error and all its requests were applied
Summary(inv) == IF inv.err = Nil /\ Applied(inv) THEN inv.op ELSE "none"

\* the world after a provider invocation for pool p ended in s
Commit(p, op, count, s) ==
    /\ nodePools' = [nodePools EXCEPT ![p] = s.pool]
    /\ nodeGroups' = [nodeGroups EXCEPT ![p] = s.group]
    /\ nodes' = [nodes EXCEPT ![p] = s.nodes]
    /\ configMaps' = [configMaps EXCEPT ![p] = s.cm]
    /\ last' = [last EXCEPT ![p] = Invocation(op, count, s)]
    /\ hist' = [hist EXCEPT ![p] = Summary(last[p])]

\* something other than the provider changed pool p
Forget(p) ==
    /\ last' = [last EXCEPT ![p] = NoInvocation]
    /\ hist' = [hist EXCEPT ![p] = Summary(NoInvocation)]

controllerVars == <<config, providers, scheduler, returned, tick, logs>>
compositeVars == <<members, result, schedule, now, feed>>
procVars == <<goroutines, backgroundSync, watcher>>
sideVars == <<sync, eks, drain, goroutines, backgroundSync, watcher>>
worldVars == <<cluster, nodePools, nodeGroups, nodes, configMaps, last, hist>>

\* ------------------------------------------------------------------------
\* Environment: the cloud and the cluster change on their own
\* ------------------------------------------------------------------------
AutoscalingOn(pool) == ~pool.Autoscaling.nil /\ pool.Autoscaling.Enabled

\* the node count the cloud is driving pool p to
Target(p) ==
    IF cluster = "gke" THEN nodePools[p].InitialNodeCount ELSE nodeGroups[p].DesiredSize

\* nodes join or leave until the pool has the size that was set
NodesConverge(p) ==
    /\ IF cluster = "gke" THEN nodePools[p].present /\ ~AutoscalingOn(nodePools[p])
                          ELSE nodeGroups[p].present
    /\ nodes[p].count # Target(p)
    /\ nodes' = [nodes EXCEPT ![p] = [count |-> Target(p),
                                      cordoned |-> Min(@.cordoned, Target(p))]]
    /\ Forget(p)
    /\ UNCHANGED <<cluster, nodePools, nodeGroups, configMaps>>

\* the cluster autoscaler resizes a GKE pool within its bounds
Autoscaler(p) ==
    /\ cluster = "gke" /\ nodePools[p].present /\ AutoscalingOn(nodePools[p])
    /\ \E n \in nodePools[p].Autoscaling.MinNodeCount..nodePools[p].Autoscaling.MaxNodeCount :
          /\ n # nodes[p].count
          /\ nodes' = [nodes EXCEPT ![p] = [count |-> n, cordoned |-> Min(@.cordoned, n)]]
    /\ Forget(p)
    /\ UNCHANGED <<cluster, nodePools, nodeGroups, configMaps>>

\* an operator cordons or uncordons a node
Cordon(p) ==
    /\ cluster = "gke"
    /\ \E k \in 0..Min(nodes[p].count, MaxCordoned) :
          /\ k # nodes[p].cordoned
          /\ nodes' = [nodes EXCEPT ![p].cordoned = k]
    /\ Forget(p)
    /\ UNCHANGED <<cluster, nodePools, nodeGroups, configMaps>>

\* an operator resizes the pool or changes its autoscaling
ExternalChange(p) ==
    /\ \/ /\ cluster = "gke" /\ nodePools[p].present
          /\ \E n \in Sizes, as \in AutoscalingValues :
                /\ NodePool(n, as) # nodePools[p]
                /\ nodePools' = [nodePools EXCEPT ![p] = NodePool(n, as)]
          /\ UNCHANGED nodeGroups
       \/ /\ cluster = "eks" /\ nodeGroups[p].present
          /\ \E min \in Sizes, max \in 1..MaxNodes, d \in Sizes :
                /\ min <= d /\ d <= max
                /\ Nodegroup(min, max, d) # nodeGroups[p]
                /\ nodeGroups' = [nodeGroups EXCEPT ![p] = Nodegroup(min, max, d)]
          /\ UNCHANGED nodePools
    /\ Forget(p)
    /\ UNCHANGED <<cluster, nodes, configMaps>>

\* ------------------------------------------------------------------------
\* The providers, invoked directly
\* ------------------------------------------------------------------------
\* NodeSpec of the configuration
NodeSpec(name, kind, count) ==
    [NodePoolName |-> name, CloudProvider |-> kind, OffTimeCount |-> count]

\* the provider under test is invoked with the off-time count of pool p1
OffTimeCount == config.NodeSpecs[1].OffTimeCount

\* a request that the invocation cannot reach in the pool's state has no
\* answer
GKEScaleAnswers(s, count) ==
    {r \in GKEScaleResponses :
        /\ ~AutoscalingOn(s.pool) => r.setAutoscaling = NoApiError
        /\ s.nodes.cordoned = 0 => r.pre # "drain"
        /\ (~s.pool.present \/ s.nodes.count = count)
              => r.pre \in {"none", "list", "nodes"} /\ r.setSize = NoApiError}

GKEScale(p) ==
    /\ cluster = "gke"
    /\ \E resp \in GKEScaleAnswers(World(p), OffTimeCount) :
          Commit(p, "scale", OffTimeCount,
                 GKEScaleNodePool(World(p), OffTimeCount, resp))
    /\ UNCHANGED cluster

GKERestore(p) ==
    /\ cluster = "gke"
    /\ \E resp \in GKERestoreResponses :
          Commit(p, "restore", -1, GKERestoreNodePool(World(p), resp))
    /\ UNCHANGED cluster

AWSScale(p) ==
    /\ cluster = "eks"
    /\ \E resp \in AWSScaleResponses :
          Commit(p, "scale", OffTimeCount,
                 AWSScaleNodePool(World(p), OffTimeCount, resp))
    /\ UNCHANGED cluster

\* the pool's off-time count is reconfigured
ChangeOffTimeCount(p) ==
    /\ \E count \in Sizes :
          /\ count # OffTimeCount
          /\ config' = [config EXCEPT !.NodeSpecs[1].OffTimeCount = count]
    /\ Forget(p)
    /\ UNCHANGED <<cluster, nodePools, nodeGroups, nodes, configMaps>>
    /\ UNCHANGED <<providers, scheduler, returned, tick, logs, compositeVars, sideVars>>

AWSRestore(p) ==
    /\ cluster = "eks"
    /\ \E resp \in AWSRestoreResponses :
          Commit(p, "restore", -1, AWSRestoreNodePool(World(p), resp))
    /\ UNCHANGED cluster

\* a converged GKE pool: without autoscaling it has the size that was set
GKEPools ==
    {w \in [pool : {NodePool(n, as) : n \in Sizes, as \in AutoscalingValues},
            count : Sizes] :
        IF AutoscalingOn(w.pool)
        THEN /\ w.pool.Autoscaling.MinNodeCount <= w.count
             /\ w.count <= w.pool.Autoscaling.MaxNodeCount
        ELSE w.count = w.pool.InitialNodeCount}
    \cup {[pool |-> NoNodePool, count |-> 0]}

\* an EKS node group: min <= desired <= max, max >= 1
EKSGroups ==
    {g \in [present : {TRUE}, MinSize : Sizes, MaxSize : 1..MaxNodes, DesiredSize : Sizes] :
        g.MinSize <= g.DesiredSize /\ g.DesiredSize <= g.MaxSize}
    \cup {NoNodegroup}

\* no refresh and no lookup of a calendar provider is in progress
NoSync == [pc |-> "idle", lookup |-> "idle", items |-> <<>>, err |-> "",
           complete |-> NoEvents]

\* an AWSProvider without goroutines calling it
NoEKS == [eksClients |-> <<>>, clientMu |-> <<>>, calls |-> <<>>, built |-> <<>>]

\* no call of DrainNode
NoDrain == [pc |-> "none", nodeName |-> "", pods |-> <<>>, err |-> ""]

NoLock == [readers |-> 0, writer |-> FALSE]
Watchers == {"watchFile", "watchConfigMap"}
NotUpdating == [pc |-> "none", cfg |-> <<>>]
NoGoroutines == [mu |-> NoLock, run |-> "none", reconcile |-> <<>>,
                 update |-> [w \in Watchers |-> NotUpdating]]
NoWatcher == [callbacks |-> <<>>, err |-> "", calls |-> <<>>]

InitIdleProc ==
    /\ goroutines = NoGoroutines
    /\ backgroundSync = 0
    /\ watcher = NoWatcher

InitIdleSide ==
    /\ sync = NoSync
    /\ eks = NoEKS
    /\ drain = NoDrain
    /\ InitIdleProc

InitIdleComposite ==
    /\ members = <<>>
    /\ result = [isWork |-> FALSE, err |-> "", evaluated |-> -1]
    /\ schedule = NoSchedule
    /\ now = 0
    /\ feed = <<>>
    /\ InitIdleSide

Idle == [pc |-> "idle", i |-> 0, isWorkTime |-> FALSE]

\* no constructor or update call has returned yet
NoCall == [call |-> "none", err |-> ""]
Returned(call, err) == [call |-> call, err |-> err]

\* the cluster has at most the pool p1
InitWorld(kind) ==
    /\ cluster = kind
    /\ \E w \in GKEPools, g \in EKSGroups :
          /\ nodePools = [p \in PoolNames |->
                            IF kind = "gke" /\ p = "p1" THEN w.pool ELSE NoNodePool]
          /\ nodeGroups = [p \in PoolNames |->
                            IF kind = "eks" /\ p = "p1" THEN g ELSE NoNodegroup]
          /\ nodes = [p \in PoolNames |->
                        IF p # "p1" THEN NoNodes
                        ELSE [count |-> IF kind = "gke" THEN w.count ELSE g.DesiredSize,
                              cordoned |-> 0]]
    /\ configMaps = [p \in PoolNames |-> NoConfigMap]
    /\ last = [p \in PoolNames |-> NoInvocation]
    /\ hist = [p \in PoolNames |-> Summary(NoInvocation)]
    /\ \E count \in Sizes :
          config = [NodeSpecs |-> <<NodeSpec("p1", IF kind = "gke" THEN "gke" ELSE "aws",
                                            count)>>]
    /\ providers = [p \in PoolNames |-> "none"]
    /\ scheduler = <<>>
    /\ returned = NoCall
    /\ tick = Idle
    /\ logs = <<>>
    /\ InitIdleComposite

InitGKE == InitWorld("gke")

NextGKE ==
    \/ GKEScale("p1") /\ UNCHANGED <<controllerVars, compositeVars, sideVars>>
    \/ GKERestore("p1") /\ UNCHANGED <<controllerVars, compositeVars, sideVars>>
    \/ NodesConverge("p1") /\ UNCHANGED <<controllerVars, compositeVars, sideVars>>
    \/ Autoscaler("p1") /\ UNCHANGED <<controllerVars, compositeVars, sideVars>>
    \/ Cordon("p1") /\ UNCHANGED <<controllerVars, compositeVars, sideVars>>
    \/ ExternalChange("p1") /\ UNCHANGED <<controllerVars, compositeVars, sideVars>>
    \/ ChangeOffTimeCount("p1")

SpecGKE == InitGKE /\ [][NextGKE]_vars

InitEKS == InitWorld("eks")

NextEKS ==
    \/ AWSScale("p1") /\ UNCHANGED <<controllerVars, compositeVars, sideVars>>
    \/ AWSRestore("p1") /\ UNCHANGED <<controllerVars, compositeVars, sideVars>>
    \/ NodesConverge("p1") /\ UNCHANGED <<controllerVars, compositeVars, sideVars>>
    \/ ExternalChange("p1") /\ UNCHANGED <<controllerVars, compositeVars, sideVars>>
    \/ ChangeOffTimeCount("p1")

SpecEKS == InitEKS /\ [][NextEKS]_vars

InitProviders == InitGKE \/ InitEKS

\* either provider, on the cluster of its cloud
NextProviders ==
    \/ GKEScale("p1") /\ UNCHANGED <<controllerVars, compositeVars, sideVars>>
    \/ GKERestore("p1") /\ UNCHANGED <<controllerVars, compositeVars, sideVars>>
    \/ AWSScale("p1") /\ UNCHANGED <<controllerVars, compositeVars, sideVars>>
    \/ AWSRestore("p1") /\ UNCHANGED <<controllerVars, compositeVars, sideVars>>
    \/ NodesConverge("p1") /\ UNCHANGED <<controllerVars, compositeVars, sideVars>>
    \/ Autoscaler("p1") /\ UNCHANGED <<controllerVars, compositeVars, sideVars>>
    \/ Cordon("p1") /\ UNCHANGED <<controllerVars, compositeVars, sideVars>>
    \/ ExternalChange("p1") /\ UNCHANGED <<controllerVars, compositeVars, sideVars>>
    \/ ChangeOffTimeCount("p1")

SpecProviders == InitProviders /\ [][NextProviders]_vars

\* ------------------------------------------------------------------------
\* Scaling controller
\* ------------------------------------------------------------------------
ProviderKinds == {"gke", "aws", "azure"}

\* NewCloudProvider: the provider kind, or "none" when construction fails
NewCloudProvider(providerType) ==
    IF providerType \in ProviderKinds THEN providerType ELSE "none"

\* initCloudProviders: start from an empty map, one provider per NodeSpec;
\* a later NodeSpec of the same pool name replaces an earlier one
RECURSIVE initCloudProvidersFrom(_, _, _)
initCloudProvidersFrom(specs, i, map) ==
    IF i > Len(specs) THEN map
    ELSE initCloudProvidersFrom(specs, i + 1,
            IF NewCloudProvider(specs[i].CloudProvider) = "none" THEN map
            ELSE [map EXCEPT ![specs[i].NodePoolName] =
                                NewCloudProvider(specs[i].CloudProvider)])

initCloudProviders(cfg) ==
    initCloudProvidersFrom(cfg.NodeSpecs, 1, [p \in PoolNames |-> "none"])

\* the log line written for a construction error
InitLogLine(pool, op, msg) == [pool |-> pool, op |-> op, err |-> msg, level |-> "error"]

\* the lines initCloudProviders logs in log-errors mode, in NodeSpec order
RECURSIVE initCloudProvidersLogs(_, _)
initCloudProvidersLogs(specs, i) ==
    IF i > Len(specs) THEN <<>>
    ELSE (IF NewCloudProvider(specs[i].CloudProvider) = "none"
          THEN <<InitLogLine(specs[i].NodePoolName, "initCloudProviders",
                             "unsupported cloud provider")>>
          ELSE <<>>) \o initCloudProvidersLogs(specs, i + 1)

\* initCloudProviders with its options: without log-errors the first
\* NodeSpec whose provider cannot be built ends it with an error
initCloudProvidersWith(cfg, logErrors) ==
    LET failed == \E i \in 1..Len(cfg.NodeSpecs) :
                     NewCloudProvider(cfg.NodeSpecs[i].CloudProvider) = "none"
    IN  IF failed /\ ~logErrors
        THEN [err |-> "failed to create provider for node pool",
              providers |-> [p \in PoolNames |-> "none"], logs |-> <<>>]
        ELSE [err |-> "", providers |-> initCloudProviders(cfg),
              logs |-> initCloudProvidersLogs(cfg.NodeSpecs, 1)]

\* ------------------------------------------------------------------------
\* Configuration: the work schedule
\* ------------------------------------------------------------------------
NilGoogleCalendar == [nil |-> TRUE, CredentialsPath |-> "", SyncInterval |-> ""]
GoogleCalendarConfig(credentialsPath, syncInterval) ==
    [nil |-> FALSE, CredentialsPath |-> credentialsPath, SyncInterval |-> syncInterval]

NilICSCalendar ==
    [nil |-> TRUE, SyncInterval |-> "", WorkDayPatterns |-> <<>>, HolidayPatterns |-> <<>>]
ICSCalendarConfig(syncInterval, workDayPatterns, holidayPatterns) ==
    [nil |-> FALSE, SyncInterval |-> syncInterval,
     WorkDayPatterns |-> workDayPatterns, HolidayPatterns |-> holidayPatterns]

WorkSchedule(startTime, endTime, timeZone, google, ics) ==
    [StartTime |-> startTime, EndTime |-> endTime, TimeZone |-> timeZone,
     WorkDays |-> NilWorkDays, GoogleCalendar |-> google, ICSCalendar |-> ics]

Config(workSchedule, nodeSpecs) == [Schedule |-> workSchedule, NodeSpecs |-> nodeSpecs]

\* time.ParseDuration, in hours
ParseDuration(value) ==
    CASE value = "2h" -> [d |-> 2, err |-> ""]
      [] OTHER -> [d |-> 0, err |-> "invalid duration"]

getSyncInterval(interval) ==
    IF interval = "" THEN [d |-> 1, err |-> ""] ELSE ParseDuration(interval)

getWorkDays(workDays) == IF workDays.nil THEN WorkDays(1..5) ELSE workDays

\* filepath.IsAbs
IsAbs(path) == path \in {"/etc/bmw-saver/key.json"}

\* the credentials file and the first synchronisation are taken to be fine
NewGoogleCalendarProvider(credentialsPath, syncInterval) ==
    IF ~IsAbs(credentialsPath)
    THEN [err |-> "credentials path must be absolute", p |-> NoSchedule]
    ELSE [err |-> "",
          p |-> [kind |-> "google", credentialsPath |-> credentialsPath,
                 syncInterval |-> syncInterval]]

\* regexp.Compile
Compiles(pattern) == pattern # "("

\* the first synchronisation is taken to be fine
NewICSCalendarProvider(syncInterval, workDayPatterns, holidayPatterns) ==
    IF \E i \in 1..Len(workDayPatterns) : ~Compiles(workDayPatterns[i])
    THEN [err |-> "invalid work day pattern", p |-> NoSchedule]
    ELSE IF \E i \in 1..Len(holidayPatterns) : ~Compiles(holidayPatterns[i])
    THEN [err |-> "invalid holiday pattern", p |-> NoSchedule]
    ELSE [err |-> "",
          p |-> [kind |-> "ics", syncInterval |-> syncInterval,
                 workPatterns |-> workDayPatterns, holidayPatterns |-> holidayPatterns]]

NewCompositeProvider(ps) == ps

\* initScheduleProviders, Google Calendar part
initGoogleCalendar(google, logErrors) ==
    LET syncInterval == getSyncInterval(google.SyncInterval)
        gcalProvider == NewGoogleCalendarProvider(google.CredentialsPath, syncInterval.d)
        logs1 == IF syncInterval.err # ""
                 THEN <<InitLogLine("", "initScheduleProviders",
                                    "Invalid sync interval, using default")>>
                 ELSE <<>>
    IN  IF google.nil THEN [err |-> "", ps |-> <<>>, logs |-> <<>>]
        ELSE IF syncInterval.err # "" /\ ~logErrors
        THEN [err |-> "invalid sync interval", ps |-> <<>>, logs |-> <<>>]
        ELSE IF gcalProvider.err # ""
        THEN IF logErrors
             THEN [err |-> "", ps |-> <<>>,
                   logs |-> Append(logs1,
                               InitLogLine("", "initScheduleProviders",
                                           "Failed to create Google Calendar provider"))]
             ELSE [err |-> "failed to create Google Calendar provider", ps |-> <<>>,
                   logs |-> <<>>]
        ELSE [err |-> "", ps |-> <<gcalProvider.p>>, logs |-> logs1]

\* initScheduleProviders, ICS part
initICSCalendar(ics, logErrors) ==
    LET parsed == ParseDuration(ics.SyncInterval)
        syncInterval == IF ics.SyncInterval # "" THEN parsed.d ELSE 1
        icsProvider == NewICSCalendarProvider(syncInterval, ics.WorkDayPatterns,
                                              ics.HolidayPatterns)
    IN  IF ics.nil THEN [err |-> "", ps |-> <<>>, logs |-> <<>>]
        ELSE IF ics.SyncInterval # "" /\ parsed.err # ""
        THEN [err |-> "invalid sync interval", ps |-> <<>>, logs |-> <<>>]
        ELSE IF icsProvider.err # ""
        THEN [err |-> "failed to create ICS Calendar provider", ps |-> <<>>, logs |-> <<>>]
        ELSE [err |-> "", ps |-> <<icsProvider.p>>, logs |-> <<>>]

\* initScheduleProviders on a controller whose scheduler is old: the error
\* returned, the scheduler afterwards and the lines logged
initScheduleProviders(old, cfg, logErrors) ==
    LET sch == cfg.Schedule
        static == IF sch.StartTime # "" /\ sch.EndTime # "" /\ sch.TimeZone # ""
                  THEN <<NewStaticProvider(sch.StartTime, sch.EndTime, sch.TimeZone,
                                           getWorkDays(sch.WorkDays))>>
                  ELSE <<>>
        google == initGoogleCalendar(sch.GoogleCalendar, logErrors)
        ics == initICSCalendar(sch.ICSCalendar, logErrors)
        scheduleProviders == static \o google.ps \o ics.ps
    IN  IF google.err # ""
        THEN [err |-> google.err, scheduler |-> old, logs |-> google.logs]
        ELSE IF ics.err # ""
        THEN [err |-> ics.err, scheduler |-> old, logs |-> google.logs]
        ELSE IF Len(scheduleProviders) = 0
        THEN IF logErrors
             THEN [err |-> "", scheduler |-> old,
                   logs |-> Append(google.logs,
                               InitLogLine("", "initScheduleProviders",
                                           "No schedule providers configured"))]
             ELSE [err |-> "no schedule providers configured", scheduler |-> old,
                   logs |-> google.logs]
        ELSE [err |-> "", scheduler |-> NewCompositeProvider(scheduleProviders),
              logs |-> google.logs]

\* NewScalingController: the error returned and the controller's fields
NewScalingController(cfg) ==
    LET s == initScheduleProviders(<<>>, cfg, FALSE)
        c == initCloudProvidersWith(cfg, FALSE)
    IN  IF s.err # ""
        THEN [err |-> s.err, scheduler |-> <<>>, providers |-> [p \in PoolNames |-> "none"]]
        ELSE IF c.err # ""
        THEN [err |-> c.err, scheduler |-> <<>>, providers |-> [p \in PoolNames |-> "none"]]
        ELSE [err |-> "", scheduler |-> s.scheduler, providers |-> c.providers]

\* AzureProvider.ScaleNodePool / RestoreNodePool: nothing is done
AzureNoop(s) == s

\* the answers the environment can give to one provider invocation
Responses(provider, isWorkTime) ==
    IF provider = "gke"
    THEN IF isWorkTime THEN GKERestoreResponses ELSE GKEScaleResponses
    ELSE IF provider = "aws"
    THEN IF isWorkTime THEN AWSRestoreResponses ELSE AWSScaleResponses
    ELSE {[pre |-> "none"]}

\* the provider invocation of one NodeSpec, by kind of provider
Invoke(provider, isWorkTime, s, count, resp) ==
    IF provider = "gke"
    THEN IF isWorkTime THEN GKERestoreNodePool(s, resp)
                       ELSE GKEScaleNodePool(s, count, resp)
    ELSE IF provider = "aws"
    THEN IF isWorkTime THEN AWSRestoreNodePool(s, resp)
                       ELSE AWSScaleNodePool(s, count, resp)
    ELSE AzureNoop(s)

\* the log line reconcile writes for the outcome of one NodeSpec
LogLevel(op, err) ==
    IF err = Nil THEN ""
    ELSE IF op = "restore" /\ IsNoSavedStateError(err) THEN "warn"
    ELSE "error"

LogLine(pool, op, err) ==
    [pool |-> pool, op |-> op, err |-> err.type, level |-> LogLevel(op, err)]

\* an evaluation error is taken for off-time
ReconcileBeginWithErrorIsOffTime(outs) ==
    /\ tick.pc = "idle"
    /\ LET verdict == CompositeIsWorkTime(outs) IN
       /\ tick' = IF Len(config.NodeSpecs) = 0 THEN Idle
                  ELSE [pc |-> "pools", i |-> 1, isWorkTime |-> verdict.isWork]
       /\ logs' = <<>>
    /\ UNCHANGED <<worldVars, config, providers, scheduler, returned, compositeVars, sideVars>>

\* reconcile, first part, when the scheduler's members answer outs: the
\* work-time verdict; an error ends the tick
ReconcileBeginWith(outs) ==
    /\ tick.pc = "idle"
    /\ LET verdict == CompositeIsWorkTime(outs) IN
       IF verdict.err # ""
       THEN /\ tick' = Idle
            /\ logs' = <<[pool |-> "", op |-> "isWorkTime", err |-> verdict.err,
                          level |-> "error"]>>
       ELSE /\ tick' = IF Len(config.NodeSpecs) = 0 THEN Idle
                       ELSE [pc |-> "pools", i |-> 1, isWorkTime |-> verdict.isWork]
            /\ logs' = <<>>
    /\ UNCHANGED <<worldVars, config, providers, scheduler, returned, compositeVars, sideVars>>

ReconcileBegin ==
    \E outs \in [1..Len(scheduler) -> MemberResults] : ReconcileBeginWith(outs)

\* the configuration is stored before the providers are rebuilt
UpdateConfigAssignsFirst(cfg) ==
    /\ tick.pc = "idle"
    /\ LET s == initScheduleProviders(scheduler, cfg, TRUE)
           c == initCloudProvidersWith(cfg, TRUE)
       IN  IF s.err # ""
           THEN /\ returned' = Returned("UpdateConfig", "")
                /\ logs' = s.logs
                /\ config' = cfg
                /\ UNCHANGED <<providers, scheduler>>
           ELSE /\ scheduler' = s.scheduler
                /\ providers' = c.providers
                /\ config' = cfg
                /\ returned' = Returned("UpdateConfig", "")
                /\ logs' = s.logs \o c.logs
    /\ UNCHANGED <<worldVars, tick, compositeVars, sideVars>>

\* the provider map is not cleared before it is filled
UpdateConfigKeepsProviders(cfg) ==
    /\ tick.pc = "idle"
    /\ LET s == initScheduleProviders(scheduler, cfg, TRUE)
           c == initCloudProvidersWith(cfg, TRUE)
       IN  IF s.err # ""
           THEN /\ returned' = Returned("UpdateConfig", "")
                /\ logs' = s.logs
                /\ UNCHANGED <<config, providers, scheduler>>
           ELSE /\ scheduler' = s.scheduler
                /\ providers' = initCloudProvidersFrom(cfg.NodeSpecs, 1, providers)
                /\ config' = cfg
                /\ returned' = Returned("UpdateConfig", "")
                /\ logs' = s.logs \o c.logs
    /\ UNCHANGED <<worldVars, tick, compositeVars, sideVars>>

\* UpdateConfig(cfg); it holds the controller's lock, which a reconcile tick
\* holds from its start to its end.  It returns nothing: an error of
\* initScheduleProviders ends it without a log line of its own
UpdateConfig(cfg) ==
    /\ tick.pc = "idle"
    /\ LET s == initScheduleProviders(scheduler, cfg, TRUE)
           c == initCloudProvidersWith(cfg, TRUE)
       IN  IF s.err # ""
           THEN /\ returned' = Returned("UpdateConfig", "")
                /\ logs' = s.logs
                /\ UNCHANGED <<config, providers, scheduler>>
           ELSE /\ scheduler' = s.scheduler
                /\ providers' = c.providers
                /\ config' = cfg
                /\ returned' = Returned("UpdateConfig", "")
                /\ logs' = s.logs \o c.logs
    /\ UNCHANGED <<worldVars, tick, compositeVars, sideVars>>

\* the tick ends at the first NodeSpec whose operation returns an error
ReconcilePoolStopsAtError ==
    /\ tick.pc = "pools"
    /\ LET spec == config.NodeSpecs[tick.i]
           p == spec.NodePoolName
           op == IF tick.isWorkTime THEN "restore" ELSE "scale"
       IN
       IF providers[p] = "none"
       THEN /\ logs' = Append(logs, [pool |-> p, op |-> "skip", err |-> "nil",
                                     level |-> "warn"])
            /\ UNCHANGED worldVars
            /\ tick' = IF tick.i = Len(config.NodeSpecs) THEN Idle
                       ELSE [tick EXCEPT !.i = @ + 1]
       ELSE \E resp \in Responses(providers[p], tick.isWorkTime) :
               LET s == Invoke(providers[p], tick.isWorkTime, World(p),
                               spec.OffTimeCount, resp)
               IN /\ Commit(p, op, spec.OffTimeCount, s)
                  /\ logs' = Append(logs, LogLine(p, op, s.err))
                  /\ UNCHANGED cluster
                  /\ tick' = IF tick.i = Len(config.NodeSpecs) \/ s.err # Nil THEN Idle
                             ELSE [tick EXCEPT !.i = @ + 1]
    /\ UNCHANGED <<config, providers, scheduler, returned, compositeVars, sideVars>>

\* reconcile, loop body: the NodeSpec at position tick.i
ReconcilePool ==
    /\ tick.pc = "pools"
    /\ LET spec == config.NodeSpecs[tick.i]
           p == spec.NodePoolName
           op == IF tick.isWorkTime THEN "restore" ELSE "scale"
       IN
       /\ IF providers[p] = "none"
          THEN /\ logs' = Append(logs, [pool |-> p, op |-> "skip", err |-> "nil",
                                        level |-> "warn"])
               /\ UNCHANGED worldVars
          ELSE \E resp \in Responses(providers[p], tick.isWorkTime) :
                  LET s == Invoke(providers[p], tick.isWorkTime, World(p),
                                  spec.OffTimeCount, resp)
                  IN /\ Commit(p, op, spec.OffTimeCount, s)
                     /\ logs' = Append(logs, LogLine(p, op, s.err))
                     /\ UNCHANGED cluster
       /\ tick' = IF tick.i = Len(config.NodeSpecs) THEN Idle
                  ELSE [tick EXCEPT !.i = @ + 1]
    /\ UNCHANGED <<config, providers, scheduler, returned, compositeVars, sideVars>>

\* configurations: pool p1 of the cluster's cloud alone, or with an Azure
\* pool p2 before or after it
WorkHours ==
    WorkSchedule("09:00", "17:00", "UTC", NilGoogleCalendar,
                 ICSCalendarConfig("", <<"Workday">>, <<"Holiday">>))

Configs(kind) ==
    {Config(WorkHours, <<NodeSpec("p1", kind, c)>>) : c \in Sizes}
    \cup {Config(WorkHours, <<NodeSpec("p1", kind, c), NodeSpec("p2", "azure", 1)>>) :
            c \in Sizes}
    \cup {Config(WorkHours, <<NodeSpec("p2", "azure", 1), NodeSpec("p1", kind, c)>>) :
            c \in Sizes}

\* the state after NewScalingController: the cluster has the pool p1, at its
\* full size, and no saved state
Init ==
    /\ cluster \in {"gke", "eks"}
    /\ \E w \in GKEPools, g \in EKSGroups :
          /\ w.pool.present /\ w.pool.InitialNodeCount = MaxNodes
          /\ g.present /\ g.DesiredSize = MaxNodes
          /\ nodePools = [p \in PoolNames |->
                            IF cluster = "gke" /\ p = "p1" THEN w.pool ELSE NoNodePool]
          /\ nodeGroups = [p \in PoolNames |->
                            IF cluster = "eks" /\ p = "p1" THEN g ELSE NoNodegroup]
          /\ nodes = [p \in PoolNames |->
                        IF p # "p1" THEN NoNodes
                        ELSE [count |-> IF cluster = "gke" THEN w.count ELSE g.DesiredSize,
                              cordoned |-> 0]]
    /\ configMaps = [p \in PoolNames |-> NoConfigMap]
    /\ last = [p \in PoolNames |-> NoInvocation]
    /\ hist = [p \in PoolNames |-> Summary(NoInvocation)]
    /\ config \in Configs(IF cluster = "gke" THEN "gke" ELSE "aws")
    /\ providers = NewScalingController(config).providers
    /\ scheduler = NewScalingController(config).scheduler
    /\ returned = Returned("NewScalingController", NewScalingController(config).err)
    /\ tick = Idle
    /\ logs = <<>>
    /\ InitIdleComposite

Next ==
    \/ ReconcileBegin
    \/ ReconcilePool
    \/ \E p \in PoolNames : NodesConverge(p) /\ UNCHANGED <<controllerVars, compositeVars, sideVars>>

Spec == Init /\ [][Next]_vars

\* Run's ticker fires again and again, the reconcile loop goes on to the
\* next pool once a provider invocation has returned, and the cloud brings
\* a pool to the size that was set
SpecLive ==
    /\ Init /\ [][Next]_vars
    /\ WF_vars(ReconcileBegin)
    /\ WF_vars(ReconcilePool)
    /\ WF_vars(\E p \in PoolNames :
                  NodesConverge(p) /\ UNCHANGED <<controllerVars, compositeVars, sideVars>>)

\* ------------------------------------------------------------------------
\* The controller and its configuration; the cloud has none of the pools
\* ------------------------------------------------------------------------
StaticSchedules ==
    {<<"", "", "">>, <<"09:00", "17:00", "UTC">>, <<"25:00", "17:00", "UTC">>,
     <<"09:00", "17:00", "Mars/Phobos">>}

GoogleCalendars ==
    {NilGoogleCalendar,
     GoogleCalendarConfig("/etc/bmw-saver/key.json", ""),
     GoogleCalendarConfig("key.json", ""),
     GoogleCalendarConfig("/etc/bmw-saver/key.json", "soon")}

ICSCalendars ==
    {NilICSCalendar,
     ICSCalendarConfig("", <<"Workday">>, <<"Holiday">>),
     ICSCalendarConfig("soon", <<"Workday">>, <<"Holiday">>),
     ICSCalendarConfig("", <<"(">>, <<"Holiday">>)}

\* a static schedule, one calendar, both, or nothing; a malformed static
\* schedule comes without a calendar
Schedules ==
    {sch \in {WorkSchedule(static[1], static[2], static[3], google, ics) :
                 static \in StaticSchedules, google \in GoogleCalendars,
                 ics \in ICSCalendars} :
        /\ sch.GoogleCalendar.nil \/ sch.ICSCalendar.nil
        /\ (sch.GoogleCalendar.nil /\ sch.ICSCalendar.nil)
           \/ (sch.StartTime \in {"", "09:00"} /\ sch.TimeZone \in {"", "UTC"})}

NodeSpecLists ==
    {<<NodeSpec("p2", "azure", 1)>>,
     <<NodeSpec("p1", "gke", 0), NodeSpec("p2", "azure", 1)>>,
     <<NodeSpec("p1", "digitalocean", 1), NodeSpec("p2", "azure", 1)>>}

\* the configurations the controller is started with: values of
\* config.Config, also ones the file loader does not produce (it fills in
\* default static hours)
StartupConfigs == {Config(sch, specs) : sch \in Schedules, specs \in NodeSpecLists}

\* the configurations UpdateConfig is called with
LiveConfigs ==
    {cfg \in StartupConfigs :
        /\ cfg.Schedule.StartTime \in {"", "09:00"}
        /\ cfg.Schedule.TimeZone \in {"", "UTC"}
        /\ cfg.Schedule.GoogleCalendar.CredentialsPath \in {"", "key.json"}}

\* no controller: NewScalingController returned an error and the process exits
Exited == [pc |-> "exited", i |-> 0, isWorkTime |-> FALSE]

InitController ==
    /\ cluster = "gke"
    /\ nodePools = [p \in PoolNames |-> NoNodePool]
    /\ nodeGroups = [p \in PoolNames |-> NoNodegroup]
    /\ nodes = [p \in PoolNames |-> NoNodes]
    /\ configMaps = [p \in PoolNames |-> NoConfigMap]
    /\ last = [p \in PoolNames |-> NoInvocation]
    /\ hist = [p \in PoolNames |-> Summary(NoInvocation)]
    /\ config \in StartupConfigs
    /\ providers = NewScalingController(config).providers
    /\ scheduler = NewScalingController(config).scheduler
    /\ returned = Returned("NewScalingController", NewScalingController(config).err)
    /\ tick = IF NewScalingController(config).err = "" THEN Idle ELSE Exited
    /\ logs = <<>>
    /\ InitIdleComposite

NextController ==
    \/ ReconcileBegin
    \/ ReconcilePool
    \/ \E cfg \in LiveConfigs : UpdateConfig(cfg)

SpecController == InitController /\ [][NextController]_vars

\* ------------------------------------------------------------------------
\* The composite provider on its own: any list of member answers
\* ------------------------------------------------------------------------
MemberLists == UNION {[1..n -> MemberResults] : n \in 0..MaxMembers}

NotEvaluated == [isWork |-> FALSE, err |-> "", evaluated |-> -1]

InitComposite ==
    /\ cluster = "none"
    /\ nodePools = [p \in PoolNames |-> NoNodePool]
    /\ nodeGroups = [p \in PoolNames |-> NoNodegroup]
    /\ nodes = [p \in PoolNames |-> NoNodes]
    /\ configMaps = [p \in PoolNames |-> NoConfigMap]
    /\ last = [p \in PoolNames |-> NoInvocation]
    /\ hist = [p \in PoolNames |-> Summary(NoInvocation)]
    /\ config = [NodeSpecs |-> <<>>]
    /\ providers = [p \in PoolNames |-> "none"]
    /\ scheduler = <<>>
    /\ returned = NoCall
    /\ tick = Idle
    /\ logs = <<>>
    /\ InitIdleSide
    /\ members \in MemberLists
    /\ result = NotEvaluated
    /\ schedule = NoSchedule
    /\ now = 0
    /\ feed = <<>>

\* IsWorkTime is called on the composite
Evaluate ==
    /\ result' = CompositeIsWorkTime(members)
    /\ UNCHANGED <<worldVars, controllerVars, sideVars, members, schedule, now, feed>>

\* another composite is built
NewComposite ==
    /\ members' \in MemberLists
    /\ result' = NotEvaluated
    /\ UNCHANGED <<worldVars, controllerVars, sideVars, schedule, now, feed>>

NextComposite == Evaluate \/ NewComposite

SpecComposite == InitComposite /\ [][NextComposite]_vars

\* ------------------------------------------------------------------------
\* A schedule provider on its own
\* ------------------------------------------------------------------------
\* no cluster and no controller
InitNoController ==
    /\ cluster = "none"
    /\ nodePools = [p \in PoolNames |-> NoNodePool]
    /\ nodeGroups = [p \in PoolNames |-> NoNodegroup]
    /\ nodes = [p \in PoolNames |-> NoNodes]
    /\ configMaps = [p \in PoolNames |-> NoConfigMap]
    /\ last = [p \in PoolNames |-> NoInvocation]
    /\ hist = [p \in PoolNames |-> Summary(NoInvocation)]
    /\ config = [NodeSpecs |-> <<>>]
    /\ providers = [p \in PoolNames |-> "none"]
    /\ scheduler = <<>>
    /\ returned = NoCall
    /\ tick = Idle
    /\ logs = <<>>
    /\ members = <<>>

WorkDaysValues == {NilWorkDays, WorkDays({}), WorkDays({0, 6}), WorkDays(Weekdays)}

StaticProviders ==
    {NewStaticProvider(startTime, endTime, timeZone, workDays) :
        startTime \in ClockValues, endTime \in ClockValues,
        timeZone \in TimeZones, workDays \in WorkDaysValues}

InitStatic ==
    /\ InitNoController
    /\ InitIdleSide
    /\ schedule \in StaticProviders
    /\ now \in Instants
    /\ feed = <<>>
    /\ result = NotEvaluated

\* IsWorkTime is called on the static provider
StaticEvaluate ==
    /\ schedule.kind = "static"
    /\ result' = [isWork |-> StaticIsWorkTime(schedule, now).isWork,
                  err |-> StaticIsWorkTime(schedule, now).err,
                  evaluated |-> 1]
    /\ UNCHANGED <<worldVars, controllerVars, sideVars, members, schedule, now, feed>>

\* an hour passes
TimePasses ==
    /\ now + 1 \in Instants
    /\ now' = now + 1
    /\ result' = NotEvaluated
    /\ UNCHANGED <<worldVars, controllerVars, sideVars, members, schedule, feed>>

NextStatic == StaticEvaluate \/ TimePasses

SpecStatic == InitStatic /\ [][NextStatic]_vars

\* a calendar provider after its constructor: the patterns are compiled and
\* the first synchronisation has succeeded
PatternLists == {<<>>, <<"Workday">>}
HolidayPatternLists == {<<>>, <<"Holiday">>}

InitCalendar ==
    /\ InitNoController
    /\ InitIdleSide
    /\ \/ /\ feed \in EventLists(ICSEvents)
          /\ \E work \in PatternLists, holiday \in HolidayPatternLists :
                /\ schedule = ICSSyncEvents(ICSCalendarProvider(work, holiday, NoEvents),
                                            SyncResponse("", feed)).p
       \/ /\ feed \in EventLists(GoogleItems)
          /\ \E offTimeEvents \in {"", "Holiday"} :
                schedule = GoogleSyncEvents(GoogleCalendarProvider(offTimeEvents, NoEvents),
                                            SyncResponse("", feed)).p
    /\ now \in CalendarInstants
    /\ result = NotEvaluated

\* IsWorkTime is called on the calendar provider
CalendarEvaluate ==
    /\ schedule.kind \in {"ics", "google"}
    /\ LET r == IF schedule.kind = "ics" THEN ICSIsWorkTime(schedule, now)
                ELSE GoogleIsWorkTime(schedule, now)
       IN  result' = [isWork |-> r.isWork, err |-> r.err, evaluated |-> 1]
    /\ UNCHANGED <<worldVars, controllerVars, sideVars, members, schedule, now, feed>>

\* the background synchronisation runs and the source answers
SyncSucceeds ==
    /\ schedule.kind \in {"ics", "google"}
    /\ schedule' = IF schedule.kind = "ics"
                   THEN ICSSyncEvents(schedule, SyncResponse("", feed)).p
                   ELSE GoogleSyncEvents(schedule, SyncResponse("", feed)).p
    /\ result' = NotEvaluated
    /\ UNCHANGED <<worldVars, controllerVars, sideVars, members, now, feed>>

\* the background synchronisation runs and the fetch or the parse fails
SyncFails ==
    /\ schedule.kind \in {"ics", "google"}
    /\ \E err \in SyncErrors \ {""} :
          schedule' = IF schedule.kind = "ics"
                      THEN ICSSyncEvents(schedule, SyncResponse(err, <<>>)).p
                      ELSE GoogleSyncEvents(schedule, SyncResponse(err, <<>>)).p
    /\ result' = NotEvaluated
    /\ UNCHANGED <<worldVars, controllerVars, sideVars, members, now, feed>>

\* the first event is removed from the calendar source
FeedChanges ==
    /\ feed # <<>>
    /\ feed' = Tail(feed)
    /\ UNCHANGED <<worldVars, controllerVars, sideVars, members, schedule, now, result>>

\* six hours pass
CalendarTimePasses ==
    /\ now + 6 \in CalendarInstants
    /\ now' = now + 6
    /\ result' = NotEvaluated
    /\ UNCHANGED <<worldVars, controllerVars, sideVars, members, schedule, feed>>

NextCalendar ==
    \/ CalendarEvaluate
    \/ SyncSucceeds
    \/ SyncFails
    \/ FeedChanges
    \/ CalendarTimePasses

SpecCalendar == InitCalendar /\ [][NextCalendar]_vars

\* ------------------------------------------------------------------------
\* A calendar provider with its background refresh and a lookup running
\* side by side.  syncMutex / mu is held by the refresh from SyncLock to
\* SyncUnlock, and by the lookup while sync.lookup = "reading".
\* ------------------------------------------------------------------------
SyncFeedEvents == {calendarEvent(span[1], span[2], summary) :
                      span \in {<<0, 24>>, <<12, 36>>}, summary \in {"Holiday", "Workday"}}
SyncFeedItems == {cachedEvent(span[1], span[2]) : span \in EventSpans}

InitSync ==
    /\ InitNoController
    /\ \/ /\ feed \in EventLists(SyncFeedEvents)
          /\ schedule = ICSSyncEvents(ICSCalendarProvider(<<"Workday">>, <<"Holiday">>,
                                                          NoEvents),
                                      SyncResponse("", feed)).p
       \/ /\ feed \in EventLists(SyncFeedItems)
          /\ \E offTimeEvents \in {"", "Holiday"} :
                schedule = GoogleSyncEvents(GoogleCalendarProvider(offTimeEvents, NoEvents),
                                            SyncResponse("", feed)).p
    /\ now \in CalendarInstants
    /\ result = NotEvaluated
    /\ sync = [NoSync EXCEPT !.complete = schedule.events]
    /\ eks = NoEKS
    /\ drain = NoDrain
    /\ InitIdleProc

\* the write lock is held
WriteLocked == sync.pc \in {"locked", "cleared", "storing"}

\* ICS syncEvents fetches and parses the calendar before it takes the lock
ICSFetch ==
    /\ schedule.kind = "ics" /\ sync.pc = "idle"
    /\ \E err \in SyncErrors :
          sync' = IF err # "" THEN [sync EXCEPT !.err = err]
                  ELSE [sync EXCEPT !.pc = "fetched", !.items = feed, !.err = ""]
    /\ UNCHANGED <<worldVars, controllerVars, compositeVars, eks, drain, procVars>>

\* mu.Lock() / syncMutex.Lock(): waits for the lookup to release the lock
SyncLock ==
    /\ \/ schedule.kind = "ics" /\ sync.pc = "fetched"
       \/ schedule.kind = "google" /\ sync.pc = "idle"
    /\ sync.lookup # "reading"
    /\ sync' = [sync EXCEPT !.pc = "locked"]
    /\ UNCHANGED <<worldVars, controllerVars, compositeVars, eks, drain, procVars>>

\* the cache is replaced by an empty map
SyncClear ==
    /\ sync.pc = "locked"
    /\ schedule' = [schedule EXCEPT !.events = NoEvents]
    /\ sync' = [sync EXCEPT !.pc = IF schedule.kind = "ics" THEN "storing" ELSE "cleared"]
    /\ UNCHANGED <<worldVars, controllerVars, members, result, now, feed, eks, drain, procVars>>

\* Google syncEvents lists the events while it holds the lock; with an
\* empty query or a failed request it returns
GoogleList ==
    /\ sync.pc = "cleared"
    /\ \E err \in SyncErrors :
          sync' = IF schedule.offTimeEvents = "" THEN [sync EXCEPT !.pc = "storing", !.err = ""]
                  ELSE IF err # "" THEN [sync EXCEPT !.pc = "storing", !.err = err]
                  ELSE [sync EXCEPT !.pc = "storing", !.items = feed, !.err = ""]
    /\ UNCHANGED <<worldVars, controllerVars, compositeVars, eks, drain, procVars>>

\* one event is stored under its date keys
SyncStore ==
    /\ sync.pc = "storing" /\ sync.items # <<>>
    /\ schedule' = [schedule EXCEPT
                      !.events = storeEvent(@, Head(sync.items), Head(sync.items).Start)]
    /\ sync' = [sync EXCEPT !.items = Tail(@)]
    /\ UNCHANGED <<worldVars, controllerVars, members, result, now, feed, eks, drain, procVars>>

\* the deferred Unlock
SyncUnlock ==
    /\ sync.pc = "storing" /\ sync.items = <<>>
    /\ sync' = [sync EXCEPT !.pc = "idle", !.complete = schedule.events]
    /\ UNCHANGED <<worldVars, controllerVars, compositeVars, eks, drain, procVars>>

\* IsWorkTime does not take the read lock
LookupBeginNoLock ==
    /\ sync.lookup = "idle"
    /\ sync' = [sync EXCEPT !.lookup = "reading"]
    /\ result' = NotEvaluated
    /\ UNCHANGED <<worldVars, controllerVars, members, schedule, now, feed, eks, drain, procVars>>

\* IsWorkTime takes the read lock: waits for the refresh to release the lock
LookupBegin ==
    /\ sync.lookup = "idle"
    /\ ~WriteLocked
    /\ sync' = [sync EXCEPT !.lookup = "reading"]
    /\ result' = NotEvaluated
    /\ UNCHANGED <<worldVars, controllerVars, members, schedule, now, feed, eks, drain, procVars>>

\* IsWorkTime reads the cache, answers and releases the read lock
LookupEnd ==
    /\ sync.lookup = "reading"
    /\ LET r == IF schedule.kind = "ics" THEN ICSIsWorkTime(schedule, now)
                ELSE GoogleIsWorkTime(schedule, now)
       IN  result' = [isWork |-> r.isWork, err |-> r.err, evaluated |-> 1]
    /\ sync' = [sync EXCEPT !.lookup = "idle"]
    /\ UNCHANGED <<worldVars, controllerVars, members, schedule, now, feed, eks, drain, procVars>>

\* the first event is removed from the calendar source
SyncFeedChanges ==
    /\ feed # <<>>
    /\ feed' = Tail(feed)
    /\ UNCHANGED <<worldVars, controllerVars, members, schedule, now, result, sideVars>>

NextSync ==
    \/ ICSFetch
    \/ SyncLock
    \/ SyncClear
    \/ GoogleList
    \/ SyncStore
    \/ SyncUnlock
    \/ LookupBegin
    \/ LookupEnd
    \/ SyncFeedChanges

SpecSync == InitSync /\ [][NextSync]_vars

\* ------------------------------------------------------------------------
\* AWSProvider.getEKSClient called by several goroutines.  A client is
\* [region, n]: the n-th client constructed for the region.
\* ------------------------------------------------------------------------
Goroutines == 1..MaxGoroutines
Regions == {"us-east-1", "eu-west-1"}
NoClient == [region |-> "", n |-> 0]
NotCalling == [pc |-> "idle", region |-> "", client |-> NoClient]

InitEKSClients ==
    /\ InitNoController
    /\ result = NotEvaluated /\ schedule = NoSchedule /\ now = 0 /\ feed = <<>>
    /\ sync = NoSync /\ drain = NoDrain
    /\ InitIdleProc
    /\ eks = [eksClients |-> [r \in Regions |-> NoClient],
              clientMu |-> [writer |-> 0, readers |-> {}],
              calls |-> [g \in Goroutines |-> NotCalling],
              built |-> [r \in Regions |-> 0]]

\* the second lookup, under the write lock, is left out
getEKSClientNoRecheck(g) ==
    LET c == eks.calls[g]
        mu == eks.clientMu
        at(pc) == [eks EXCEPT !.calls[g].pc = pc]
    IN
    /\ \/ /\ c.pc \in {"idle", "returned"}
          /\ \E region \in Regions :
                eks' = [eks EXCEPT !.calls[g] = [pc |-> "RLock", region |-> region,
                                                 client |-> NoClient]]
       \/ /\ c.pc = "RLock" /\ mu.writer = 0
          /\ eks' = [at("lookup") EXCEPT !.clientMu.readers = @ \cup {g}]
       \/ /\ c.pc = "lookup"
          /\ eks' = [eks EXCEPT !.clientMu.readers = @ \ {g},
                                !.calls[g].client = eks.eksClients[c.region],
                                !.calls[g].pc = IF eks.eksClients[c.region] # NoClient
                                                THEN "returned" ELSE "Lock"]
       \/ /\ c.pc = "Lock" /\ mu.writer = 0 /\ mu.readers = {}
          /\ eks' = [at("create") EXCEPT !.clientMu.writer = g]
       \/ /\ c.pc = "create"
          /\ eks' = [at("store") EXCEPT
                        !.built[c.region] = @ + 1,
                        !.calls[g].client = [region |-> c.region,
                                             n |-> eks.built[c.region] + 1]]
       \/ /\ c.pc = "store"
          /\ eks' = [at("returned") EXCEPT !.eksClients[c.region] = c.client,
                                           !.clientMu.writer = 0]
    /\ UNCHANGED <<worldVars, controllerVars, compositeVars, sync, drain, procVars>>

\* one step of goroutine g in getEKSClient: the call, RLock, the lookup with
\* RUnlock and the return of a client found, Lock, the second lookup with the
\* return of a client found, the construction, and the store with the
\* deferred Unlock and the return
getEKSClient(g) ==
    LET c == eks.calls[g]
        mu == eks.clientMu
        at(pc) == [eks EXCEPT !.calls[g].pc = pc]
    IN
    /\ \/ /\ c.pc \in {"idle", "returned"}
          /\ \E region \in Regions :
                eks' = [eks EXCEPT !.calls[g] = [pc |-> "RLock", region |-> region,
                                                 client |-> NoClient]]
       \/ /\ c.pc = "RLock" /\ mu.writer = 0
          /\ eks' = [at("lookup") EXCEPT !.clientMu.readers = @ \cup {g}]
       \/ /\ c.pc = "lookup"
          /\ eks' = [eks EXCEPT !.clientMu.readers = @ \ {g},
                                !.calls[g].client = eks.eksClients[c.region],
                                !.calls[g].pc = IF eks.eksClients[c.region] # NoClient
                                                THEN "returned" ELSE "Lock"]
       \/ /\ c.pc = "Lock" /\ mu.writer = 0 /\ mu.readers = {}
          /\ eks' = [at("locked") EXCEPT !.clientMu.writer = g]
       \/ /\ c.pc = "locked"
          /\ eks' = IF eks.eksClients[c.region] # NoClient
                    THEN [at("returned") EXCEPT
                             !.calls[g].client = eks.eksClients[c.region],
                             !.clientMu.writer = 0]
                    ELSE at("create")
       \/ /\ c.pc = "create"
          /\ eks' = [at("store") EXCEPT
                        !.built[c.region] = @ + 1,
                        !.calls[g].client = [region |-> c.region,
                                             n |-> eks.built[c.region] + 1]]
       \/ /\ c.pc = "store"
          /\ eks' = [at("returned") EXCEPT !.eksClients[c.region] = c.client,
                                           !.clientMu.writer = 0]
    /\ UNCHANGED <<worldVars, controllerVars, compositeVars, sync, drain, procVars>>

NextEKSClients == \E g \in Goroutines : getEKSClient(g)

SpecEKSClients == InitEKSClients /\ [][NextEKSClients]_vars

\* ------------------------------------------------------------------------
\* DrainNode.  A pod is [Namespace, NodeName, present, deletes]: deletes
\* counts the Delete requests issued for it.
\* ------------------------------------------------------------------------
Pod(namespace, nodeName) ==
    [Namespace |-> namespace, NodeName |-> nodeName, present |-> TRUE, deletes |-> 0]

PodLists ==
    UNION {[1..n -> {Pod(ns, node) : ns \in {"kube-system", "default"},
                                     node \in {"node-1", "node-2"}}] : n \in 0..MaxPods}

\* the answers to one call: of NewForConfig, of Pods("").List and of the
\* Delete of each pod
DrainResponses ==
    [client : {"", "err"}, list : {"", "err"}, delete : [1..MaxPods -> {"", "err"}]]

\* the first Delete that fails ends the loop
RECURSIVE deletePodsStopAtError(_, _, _, _)
deletePodsStopAtError(pods, nodeName, answers, i) ==
    IF i > Len(pods) THEN pods
    ELSE IF pods[i].NodeName # nodeName \/ pods[i].Namespace = "kube-system"
    THEN deletePodsStopAtError(pods, nodeName, answers, i + 1)
    ELSE IF answers[i] # ""
    THEN [pods EXCEPT ![i].deletes = @ + 1]
    ELSE deletePodsStopAtError([pods EXCEPT ![i].deletes = @ + 1, ![i].present = FALSE],
                               nodeName, answers, i + 1)

\* the loop over the pods listed with spec.nodeName = nodeName
RECURSIVE deletePods(_, _, _, _)
deletePods(pods, nodeName, answers, i) ==
    IF i > Len(pods) THEN pods
    ELSE IF pods[i].NodeName # nodeName \/ pods[i].Namespace = "kube-system"
    THEN deletePods(pods, nodeName, answers, i + 1)
    ELSE deletePods([pods EXCEPT ![i].deletes = @ + 1,
                                 ![i].present = (answers[i] # "")],
                    nodeName, answers, i + 1)

\* the loop ends at the first Delete that fails
DrainNodeStopAtError(pods, nodeName, resp) ==
    IF resp.client # ""
    THEN [pc |-> "returned", nodeName |-> nodeName, pods |-> pods,
          err |-> "failed to create kubernetes client"]
    ELSE IF resp.list # ""
    THEN [pc |-> "returned", nodeName |-> nodeName, pods |-> pods,
          err |-> "failed to list pods"]
    ELSE [pc |-> "returned", nodeName |-> nodeName,
          pods |-> deletePodsStopAtError(pods, nodeName, resp.delete, 1), err |-> ""]

DrainNode(pods, nodeName, resp) ==
    IF resp.client # ""
    THEN [pc |-> "returned", nodeName |-> nodeName, pods |-> pods,
          err |-> "failed to create kubernetes client"]
    ELSE IF resp.list # ""
    THEN [pc |-> "returned", nodeName |-> nodeName, pods |-> pods,
          err |-> "failed to list pods"]
    ELSE [pc |-> "returned", nodeName |-> nodeName,
          pods |-> deletePods(pods, nodeName, resp.delete, 1), err |-> ""]

InitDrain ==
    /\ InitNoController
    /\ result = NotEvaluated /\ schedule = NoSchedule /\ now = 0 /\ feed = <<>>
    /\ sync = NoSync /\ eks = NoEKS
    /\ InitIdleProc
    /\ \E pods \in PodLists : drain = [NoDrain EXCEPT !.pods = pods]

\* DrainNode is called for a node and returns
DrainCall ==
    /\ drain.pc = "none"
    /\ \E nodeName \in {"node-1", "node-2"}, resp \in DrainResponses :
          drain' = DrainNode(drain.pods, nodeName, resp)
    /\ UNCHANGED <<worldVars, controllerVars, compositeVars, sync, eks, procVars>>

NextDrain == DrainCall

SpecDrain == InitDrain /\ [][NextDrain]_vars

\* ------------------------------------------------------------------------
\* The controller's goroutines: Run calls reconcile once a period, the two
\* watchers call UpdateConfig, and both take ScalingController.mu.  The
\* positions are those at which a goroutine waits: for the lock, for the
\* schedule providers, for a cloud provider, for a calendar
\* ------------------------------------------------------------------------
StaticHours == WorkSchedule("09:00", "17:00", "UTC", NilGoogleCalendar, NilICSCalendar)
BadPattern ==
    WorkSchedule("09:00", "17:00", "UTC", NilGoogleCalendar,
                 ICSCalendarConfig("", <<"(">>, <<"Holiday">>))

\* the configurations the watchers deliver
DeliveredConfigs ==
    {Config(WorkHours, <<NodeSpec("p1", "gke", 0)>>),
     Config(StaticHours, <<NodeSpec("p1", "gke", 0), NodeSpec("p2", "azure", 1)>>),
     Config(BadPattern, <<NodeSpec("p2", "azure", 1)>>)}

\* the calendar providers initScheduleProviders(cfg) constructs: each
\* constructor fetches the calendar once and starts its backgroundSync
Constructed(cfg, logErrors) ==
    LET google == initGoogleCalendar(cfg.Schedule.GoogleCalendar, logErrors)
        ics == initICSCalendar(cfg.Schedule.ICSCalendar, logErrors)
    IN  IF google.err # "" THEN <<>> ELSE google.ps \o ics.ps

RemoveAt(seq, k) == [j \in 1..(Len(seq) - 1) |-> IF j < k THEN seq[j] ELSE seq[j + 1]]

RLock(mu) == [mu EXCEPT !.readers = @ + 1]
RUnlock(mu) == [mu EXCEPT !.readers = @ - 1]

InitGoroutines ==
    /\ cluster = "gke"
    /\ nodePools = [p \in PoolNames |-> NoNodePool]
    /\ nodeGroups = [p \in PoolNames |-> NoNodegroup]
    /\ nodes = [p \in PoolNames |-> NoNodes]
    /\ configMaps = [p \in PoolNames |-> NoConfigMap]
    /\ last = [p \in PoolNames |-> NoInvocation]
    /\ hist = [p \in PoolNames |-> Summary(NoInvocation)]
    /\ config \in {cfg \in DeliveredConfigs : NewScalingController(cfg).err = ""}
    /\ providers = NewScalingController(config).providers
    /\ scheduler = NewScalingController(config).scheduler
    /\ returned = Returned("NewScalingController", "")
    /\ tick = Idle
    /\ logs = <<>>
    /\ members = <<>> /\ schedule = NoSchedule
    /\ result = [isWork |-> FALSE, err |-> "", evaluated |-> -1]
    /\ now = 0 /\ feed = <<>>
    /\ sync = NoSync /\ eks = NoEKS /\ drain = NoDrain
    /\ goroutines = [NoGoroutines EXCEPT !.run = "wait"]
    /\ backgroundSync = Len(Constructed(config, FALSE))
    /\ watcher = NoWatcher

\* a reconcile is started in a goroutine of its own every period
RunGo ==
    /\ goroutines.run = "wait"
    /\ Len(goroutines.reconcile) < 2
    /\ goroutines' = [goroutines EXCEPT
                         !.reconcile = Append(@, [pc |-> "RLock", i |-> 0,
                                                  isWorkTime |-> FALSE])]
    /\ UNCHANGED <<worldVars, controllerVars, compositeVars, sync, eks, drain,
                   backgroundSync, watcher>>

\* wait.Forever: the period has passed since reconcile returned, and Run
\* calls reconcile
Run ==
    /\ goroutines.run = "wait"
    /\ goroutines' = [goroutines EXCEPT
                         !.run = "reconcile",
                         !.reconcile = Append(@, [pc |-> "RLock", i |-> 0,
                                                  isWorkTime |-> FALSE])]
    /\ UNCHANGED <<worldVars, controllerVars, compositeVars, sync, eks, drain,
                   backgroundSync, watcher>>

\* reconcile returns: the deferred RUnlock, and Run waits for a period
reconcileReturns(k) ==
    [goroutines EXCEPT !.mu = RUnlock(@), !.run = "wait",
                       !.reconcile = RemoveAt(@, k)]

\* one step of reconcile: it takes the read lock, asks the scheduler, and
\* calls the provider of one NodeSpec after the other
reconcile(k) ==
    LET r == goroutines.reconcile[k] IN
    /\ \/ /\ r.pc = "RLock"
          /\ ~goroutines.mu.writer
          /\ goroutines' = [goroutines EXCEPT !.mu = RLock(@),
                                              !.reconcile[k].pc = "isWorkTime"]
       \/ /\ r.pc = "isWorkTime"
          /\ \/ goroutines' = reconcileReturns(k)
             \/ \E isWorkTime \in BOOLEAN :
                   goroutines' =
                       IF Len(config.NodeSpecs) = 0 THEN reconcileReturns(k)
                       ELSE [goroutines EXCEPT
                                !.reconcile[k] = [pc |-> "provider", i |-> 1,
                                                  isWorkTime |-> isWorkTime]]
       \/ /\ r.pc = "provider"
          /\ goroutines' =
                IF r.i = Len(config.NodeSpecs) THEN reconcileReturns(k)
                ELSE [goroutines EXCEPT !.reconcile[k].i = @ + 1]
    /\ UNCHANGED <<worldVars, controllerVars, compositeVars, sync, eks, drain,
                   backgroundSync, watcher>>

\* the backgroundSync goroutines that the UpdateConfig calls in progress
\* have yet to start
ToStart ==
    LET n(w) == IF goroutines.update[w].pc \in {"Lock", "initScheduleProviders"}
                THEN Len(Constructed(goroutines.update[w].cfg, TRUE)) ELSE 0
    IN  n("watchFile") + n("watchConfigMap")

\* a watcher calls UpdateConfig(cfg)
notifyCallbacks(w, cfg) ==
    /\ goroutines.update[w].pc = "none"
    /\ backgroundSync + ToStart + Len(Constructed(cfg, TRUE)) <= MaxTasks
    /\ goroutines' = [goroutines EXCEPT !.update[w] = [pc |-> "Lock", cfg |-> cfg]]
    /\ UNCHANGED <<worldVars, controllerVars, compositeVars, sync, eks, drain,
                   backgroundSync, watcher>>

\* UpdateConfig, step by step: the lock, initScheduleProviders (which
\* assigns sc.scheduler when it returns no error; every calendar provider
\* it constructs has started its backgroundSync with context.Background()),
\* initCloudProviders and sc.config; the deferred Unlock on every return
UpdateConfigSteps(w) ==
    LET u == goroutines.update[w]
        s == initScheduleProviders(scheduler, u.cfg, TRUE)
        c == initCloudProvidersWith(u.cfg, TRUE)
    IN
    \/ /\ u.pc = "Lock"
       /\ ~goroutines.mu.writer /\ goroutines.mu.readers = 0
       /\ goroutines' = [goroutines EXCEPT !.mu.writer = TRUE,
                                           !.update[w].pc = "initScheduleProviders"]
       /\ UNCHANGED <<worldVars, controllerVars, compositeVars, sync, eks, drain,
                      backgroundSync, watcher>>
    \/ /\ u.pc = "initScheduleProviders"
       /\ IF s.err # ""
          THEN /\ goroutines' = [goroutines EXCEPT !.mu.writer = FALSE,
                                                   !.update[w] = NotUpdating]
               /\ UNCHANGED scheduler
          ELSE /\ goroutines' = [goroutines EXCEPT
                                    !.update[w].pc = "initCloudProviders"]
               /\ scheduler' = s.scheduler
       /\ backgroundSync' = backgroundSync + Len(Constructed(u.cfg, TRUE))
       /\ UNCHANGED <<worldVars, config, providers, returned, tick, logs,
                      compositeVars, sync, eks, drain, watcher>>
    \/ /\ u.pc = "initCloudProviders"
       /\ providers' = c.providers
       /\ config' = u.cfg
       /\ goroutines' = [goroutines EXCEPT !.mu.writer = FALSE,
                                           !.update[w] = NotUpdating]
       /\ UNCHANGED <<worldVars, scheduler, returned, tick, logs,
                      compositeVars, sync, eks, drain, backgroundSync, watcher>>

NextGoroutines ==
    \/ Run
    \/ \E k \in 1..Len(goroutines.reconcile) : reconcile(k)
    \/ \E w \in Watchers, cfg \in DeliveredConfigs : notifyCallbacks(w, cfg)
    \/ \E w \in Watchers : UpdateConfigSteps(w)

SpecGoroutines == InitGoroutines /\ [][NextGoroutines]_vars

\* ------------------------------------------------------------------------
\* The configuration watcher: a change of the file or of the ConfigMap is
\* read, validated and handed to the registered callbacks; the callback
\* main registers is the controller's UpdateConfig
\* ------------------------------------------------------------------------
\* a document: whether it can be read (the file) and parsed, and the Config
\* it unmarshals to
Document(fault, cfg) == [fault |-> fault, cfg |-> cfg]

EveryDay == WorkSchedule("", "", "", NilGoogleCalendar, NilICSCalendar)
NoCredentials ==
    WorkSchedule("09:00", "17:00", "UTC", GoogleCalendarConfig("", ""), NilICSCalendar)

Documents ==
    {Document("parse", Config(StaticHours, <<>>)),
     Document("read", Config(StaticHours, <<>>)),
     Document("", Config(StaticHours, <<NodeSpec("p1", "azure", 0), NodeSpec("p2", "azure", 1)>>)),
     Document("", Config(EveryDay, <<NodeSpec("p2", "azure", 1)>>)),
     Document("", Config(StaticHours, <<NodeSpec("p1", "azure", 0), NodeSpec("p1", "azure", 1)>>)),
     Document("", Config(StaticHours, <<NodeSpec("", "gke", 0)>>)),
     Document("", Config(StaticHours, <<NodeSpec("p1", "", 0)>>)),
     Document("", Config(StaticHours, <<NodeSpec("p1", "gke", -1)>>)),
     Document("", Config(NoCredentials, <<NodeSpec("p1", "gke", 0)>>))}

\* setDefaults on the schedule and on its work days: an empty string and a
\* false bool take the default of the field's tag
setDefaults(sched) ==
    [sched EXCEPT
        !.StartTime = IF @ = "" THEN "09:00" ELSE @,
        !.EndTime = IF @ = "" THEN "17:00" ELSE @,
        !.TimeZone = IF @ = "" THEN "UTC" ELSE @,
        !.WorkDays = WorkDays((IF @.nil THEN {} ELSE @.days) \cup 1..5)]

hasStaticSchedule(sched) ==
    sched.StartTime # "" /\ sched.EndTime # "" /\ sched.TimeZone # ""

validateGoogleCalendarSchedule(sched) ==
    IF sched.GoogleCalendar.CredentialsPath = ""
    THEN "credentials file is required for google calendar sched"
    ELSE ""

validateNodeSpec(spec) ==
    IF spec.NodePoolName = "" THEN "node pool name is required"
    ELSE IF spec.CloudProvider = "" THEN "cloud provider is required"
    ELSE IF spec.OffTimeCount < 0 THEN "invalid off-time node count"
    ELSE ""

\* a NodeSpec is looked at only when those before it are valid
ReadConfigFromBytes(doc) ==
    LET cfg == [doc.cfg EXCEPT !.Schedule = setDefaults(@)]
        bad == {i \in 1..Len(cfg.NodeSpecs) : validateNodeSpec(cfg.NodeSpecs[i]) # ""}
        first == CHOOSE i \in bad : \A j \in bad : i <= j
    IN  IF doc.fault = "parse" THEN [err |-> "failed to parse config", cfg |-> <<>>]
        ELSE IF ~(hasStaticSchedule(cfg.Schedule) \/ ~cfg.Schedule.GoogleCalendar.nil)
        THEN [err |-> "no valid schedule configuration provided", cfg |-> <<>>]
        ELSE IF ~cfg.Schedule.GoogleCalendar.nil
                /\ validateGoogleCalendarSchedule(cfg.Schedule) # ""
        THEN [err |-> validateGoogleCalendarSchedule(cfg.Schedule), cfg |-> <<>>]
        ELSE IF bad # {}
        THEN [err |-> validateNodeSpec(cfg.NodeSpecs[first]), cfg |-> <<>>]
        ELSE [err |-> "", cfg |-> cfg]

ReadConfig(doc) ==
    IF doc.fault = "read" THEN [err |-> "failed to read config file", cfg |-> <<>>]
    ELSE ReadConfigFromBytes(doc)

Callbacks == {"UpdateConfig", "other"}
Registered(cb) == \E i \in 1..Len(watcher.callbacks) : watcher.callbacks[i] = cb

InitWatcher ==
    /\ cluster = "gke"
    /\ nodePools = [p \in PoolNames |-> NoNodePool]
    /\ nodeGroups = [p \in PoolNames |-> NoNodegroup]
    /\ nodes = [p \in PoolNames |-> NoNodes]
    /\ configMaps = [p \in PoolNames |-> NoConfigMap]
    /\ last = [p \in PoolNames |-> NoInvocation]
    /\ hist = [p \in PoolNames |-> Summary(NoInvocation)]
    /\ \E doc \in Documents :
          /\ ReadConfig(doc).err = ""
          /\ NewScalingController(ReadConfig(doc).cfg).err = ""
          /\ config = ReadConfig(doc).cfg
    /\ providers = NewScalingController(config).providers
    /\ scheduler = NewScalingController(config).scheduler
    /\ returned = Returned("NewScalingController", "")
    /\ tick = Idle
    /\ logs = <<>>
    /\ members = <<>> /\ schedule = NoSchedule
    /\ result = [isWork |-> FALSE, err |-> "", evaluated |-> -1]
    /\ now = 0 /\ feed = <<>>
    /\ sync = NoSync /\ eks = NoEKS /\ drain = NoDrain
    /\ goroutines = NoGoroutines
    /\ backgroundSync = 0
    /\ watcher = NoWatcher

OnConfigChange(callback) ==
    /\ ~Registered(callback)
    /\ watcher' = [watcher EXCEPT !.callbacks = Append(@, callback)]
    /\ UNCHANGED <<worldVars, controllerVars, compositeVars, sync, eks, drain,
                   goroutines, backgroundSync>>

\* the callbacks are called in the order of the slice, the last first
notifyCallbacksReversed(cfg) ==
    [i \in 1..Len(watcher.callbacks) |->
        [callback |-> watcher.callbacks[Len(watcher.callbacks) + 1 - i], cfg |-> cfg]]

\* the calls notifyCallbacks(cfg) makes
notifyCallbacksCalls(cfg) ==
    [i \in 1..Len(watcher.callbacks) |-> [callback |-> watcher.callbacks[i], cfg |-> cfg]]

\* the change of a source is handled: the document is read and, when it is
\* valid, every callback is called with the configuration.  The callback
\* UpdateConfig takes the controller's lock, which a reconcile tick holds
Reload(source, doc) ==
    LET r == IF source = "watchFile" THEN ReadConfig(doc) ELSE ReadConfigFromBytes(doc)
        s == initScheduleProviders(scheduler, r.cfg, TRUE)
        c == initCloudProvidersWith(r.cfg, TRUE)
    IN
    /\ source = "watchConfigMap" => doc.fault # "read"
    /\ IF r.err # ""
       THEN /\ watcher' = [watcher EXCEPT !.err = r.err, !.calls = <<>>]
            /\ UNCHANGED <<controllerVars>>
       ELSE /\ watcher' = [watcher EXCEPT !.err = "",
                                          !.calls = notifyCallbacksCalls(r.cfg)]
            /\ IF ~Registered("UpdateConfig")
               THEN UNCHANGED <<controllerVars>>
               ELSE /\ tick.pc = "idle"
                    /\ returned' = Returned("UpdateConfig", "")
                    /\ UNCHANGED tick
                    /\ IF s.err # ""
                       THEN /\ logs' = s.logs
                            /\ UNCHANGED <<config, providers, scheduler>>
                       ELSE /\ scheduler' = s.scheduler
                            /\ providers' = c.providers
                            /\ config' = r.cfg
                            /\ logs' = s.logs \o c.logs
    /\ UNCHANGED <<worldVars, compositeVars, sync, eks, drain, goroutines,
                   backgroundSync>>

NextWatcher ==
    \/ \E callback \in Callbacks : OnConfigChange(callback)
    \/ \E source \in Watchers, doc \in Documents : Reload(source, doc)
    \/ ReconcileBegin
    \/ ReconcilePool

SpecWatcher == InitWatcher /\ [][NextWatcher]_vars

\* ------------------------------------------------------------------------
\* Properties
\* ------------------------------------------------------------------------
HasCall(inv, api, outcome) ==
    \E i \in 1..Len(inv.calls) : inv.calls[i].api = api /\ inv.calls[i].outcome = outcome

\* errors of the requests that only read the pool and its nodes
ReadFailures ==
    {Error("failed to list node pools"), Error("failed to get nodes in node pool")}

SaveFailures ==
    {Error("failed to save node pool config"), Error("failed to save node group config")}

\* C2: in a scale-down of either provider, every request that changes the
\* pool (SetAutoscaling, SetSize, UpdateNodegroupConfig) is issued when the
\* pool's saved-state record exists; a scale-down whose save fails returns
\* an error and has issued no such request.
C2_SaveBeforeMutation ==
    \A p \in PoolNames :
        last[p].op = "scale" =>
            /\ \A i \in 1..Len(last[p].calls) :
                  last[p].calls[i].api \in MutatingApis => last[p].calls[i].saved
            /\ ~configMaps[p].present => Mutations(last[p].calls) = <<>>
            /\ HasCall(last[p], "CreateConfigMap", "err") =>
                  last[p].err \in SaveFailures
            /\ last[p].err \in SaveFailures => Mutations(last[p].calls) = <<>>

\* a scale-down that created the record and then changed the pool twice
C2_Witness ==
    /\ last["p1"].op = "scale"
    /\ HasCall(last["p1"], "CreateConfigMap", "ok")
    /\ Len(Mutations(last["p1"].calls)) = 2

\* C3: once a pool has a saved-state record, no scale-down or restore
\* changes or deletes it.
C3_SavedStateIsKept ==
    [][\A p \in PoolNames : configMaps[p].present => configMaps'[p] = configMaps[p]]_vars

\* a scale-down found a record that differs from the pool's state, its save
\* was answered AlreadyExists, it returned no error and the record is as it
\* was (the SetSize request being answered busy, the pool is as it was too)
C3_Witness ==
    /\ cluster = "gke"
    /\ last["p1"].op = "scale" /\ last["p1"].err = Nil
    /\ HasCall(last["p1"], "CreateConfigMap", "exists")
    /\ HasCall(last["p1"], "SetSize", "busy")
    /\ Len(Mutations(last["p1"].calls)) = 1
    /\ configMaps["p1"].data #
          encodeNodePoolConfig([NodeCount |-> nodePools["p1"].InitialNodeCount,
                                Autoscaling |-> nodePools["p1"].Autoscaling])

\* C5: a GKE ScaleNodePool invoked when the pool has as many nodes as the
\* requested count issues no request at all (no SetAutoscaling, no SetSize,
\* no drain, no save), changes nothing, and returns nil unless reading the
\* pool or its nodes failed.
C5_GKEScaleAtSizeIsNoop ==
    [][\A p \in PoolNames :
          (cluster = "gke" /\ last'[p].op = "scale" /\ nodes[p].count = last'[p].count)
          => /\ last'[p].calls = <<>>
             /\ last'[p].err \in {Nil} \cup ReadFailures
             /\ nodePools'[p] = nodePools[p]
             /\ nodes'[p] = nodes[p]
             /\ configMaps'[p] = configMaps[p]]_vars

\* such a scale-down, of a pool that has a cordoned node and no saved state
C5_Witness ==
    /\ cluster = "gke"
    /\ last["p1"].op = "scale" /\ last["p1"].err = Nil /\ last["p1"].calls = <<>>
    /\ nodePools["p1"].present
    /\ nodes["p1"].count = last["p1"].count
    /\ nodes["p1"].cordoned > 0
    /\ nodePools["p1"].InitialNodeCount # last["p1"].count
    /\ ~configMaps["p1"].present

\* C10: the composite's answer is decided by the first member that returns
\* an error or false: the error is returned unchanged, or (false, nil), and
\* no later member is evaluated; it is (true, nil), every member evaluated,
\* only if every member returned true without error.
C10_CompositeShortCircuit ==
    result # NotEvaluated =>
        LET stops == {i \in 1..Len(members) :
                        members[i].err # "" \/ ~members[i].isWork}
        IN IF stops = {}
           THEN result = [isWork |-> TRUE, err |-> "", evaluated |-> Len(members)]
           ELSE LET k == CHOOSE i \in stops : \A j \in stops : i <= j
                IN result = [isWork |-> FALSE, err |-> members[k].err, evaluated |-> k]

\* a member answers false, a later member would have returned an error
C10_Witness ==
    /\ result = [isWork |-> FALSE, err |-> "", evaluated |-> 2]
    /\ Len(members) = 3
    /\ members[1] = [isWork |-> TRUE, err |-> ""]
    /\ members[3].err # ""

\* the step is reconcile's loop body for pool p, whose provider is of kind
ReconcileStep(p, kind, isWorkTime) ==
    /\ tick.pc = "pools" /\ tick' # tick
    /\ tick.isWorkTime = isWorkTime
    /\ config.NodeSpecs[tick.i].NodePoolName = p
    /\ providers[p] = kind

\* the provider invocation of the step returned nil, its requests answered
\* without error
StepApplied(p) == last'[p].err = Nil /\ Applied(last'[p])

\* the step's scale-down stored the pool's prior size and autoscaling and
\* requested the off-time size
SavedAndRequested(p) ==
    LET saved == decodeNodePoolConfig(configMaps'[p].data)
        count == config.NodeSpecs[tick.i].OffTimeCount
    IN /\ configMaps'[p].present
       /\ saved.NodeCount = nodePools[p].InitialNodeCount
       /\ saved.Autoscaling = nodePools[p].Autoscaling
       /\ \E i \in 1..Len(last'[p].calls) :
             /\ last'[p].calls[i].api = "SetSize"
             /\ last'[p].calls[i].n = count
             /\ last'[p].calls[i].outcome = "ok"
       /\ nodePools'[p].InitialNodeCount = count

\* the step's restore left the pool with the saved configuration
RestoredFromSaved(p) ==
    LET saved == decodeNodePoolConfig(configMaps[p].data)
    IN IF AutoscalingOn(saved)
       THEN nodePools'[p].Autoscaling = saved.Autoscaling
       ELSE nodePools'[p].InitialNodeCount = saved.NodeCount

RestoreRoundTrip(p) ==
    (/\ ReconcileStep(p, "gke", TRUE)
     /\ nodePools[p].present /\ configMaps[p].present
     /\ StepApplied(p))
    => RestoredFromSaved(p)

\* C1, as claimed: for a GKE pool without saved record, whatever its size
\* N, an off-time tick (its requests answered without error) saves the
\* pool's prior size and autoscaling and requests the off-time size; a
\* work-time tick (no busy answer, no external change) then leaves the pool
\* with the saved configuration.
C1_RoundTripAnySize ==
    [][\A p \in PoolNames :
          /\ (/\ ReconcileStep(p, "gke", FALSE)
              /\ nodePools[p].present /\ ~configMaps[p].present
              /\ StepApplied(p))
             => SavedAndRequested(p)
          /\ RestoreRoundTrip(p)]_vars

\* C1, amended: for a GKE pool without saved record whose number of nodes
\* differs from the off-time count, an off-time tick (its requests answered
\* without error) saves the pool's prior size and autoscaling and requests
\* the off-time size; a work-time tick (no busy answer, no external change)
\* then leaves the pool with the saved configuration: the saved size when
\* the saved autoscaling is not enabled, the saved autoscaling when it is.
C1_RoundTrip ==
    [][\A p \in PoolNames :
          /\ (/\ ReconcileStep(p, "gke", FALSE)
              /\ nodePools[p].present /\ ~configMaps[p].present
              /\ nodes[p].count # config.NodeSpecs[tick.i].OffTimeCount
              /\ StepApplied(p))
             => SavedAndRequested(p)
          /\ RestoreRoundTrip(p)]_vars

\* a work-time tick right after the off-time tick has set the pool back to
\* the size it had at first
C1_Witness ==
    /\ cluster = "gke"
    /\ hist["p1"] = "scale"
    /\ last["p1"].op = "restore" /\ last["p1"].err = Nil
    /\ HasCall(last["p1"], "SetSize", "ok")
    /\ configMaps["p1"].present
    /\ nodePools["p1"].InitialNodeCount = MaxNodes
    /\ decodeNodePoolConfig(configMaps["p1"].data).NodeCount = MaxNodes

\* C4 (return value and live state; the saved record is left out, a first
\* scale-down creates it before its first request): a GKE scale-down or
\* restore one of whose SetSize / SetAutoscaling requests is answered
\* "cluster already has operation" returns nil and leaves the pool's size
\* and autoscaling as they were.
C4_BusyIsNoop ==
    [][\A p \in PoolNames :
          (/\ cluster = "gke"
           /\ last'[p].op \in {"scale", "restore"}
           /\ \/ HasCall(last'[p], "SetSize", "busy")
              \/ HasCall(last'[p], "SetAutoscaling", "busy"))
          => /\ last'[p].err = Nil
             /\ nodePools'[p] = nodePools[p]]_vars

RestoreReadFailures ==
    {Error("failed to get saved config"), Error("failed to list node pools"),
     Error("failed to get nodes"), Error("failed to get region")}

\* C6: a GKE restore that follows an applied restore of the same pool, with
\* no scale-down and no other change between the two, issues neither
\* SetSize nor SetAutoscaling and returns nil (unless a read fails).
C6_GKERestoreTwice ==
    \A p \in PoolNames :
        (cluster = "gke" /\ hist[p] = "restore" /\ last[p].op = "restore")
        => /\ Mutations(last[p].calls) = <<>>
           /\ last[p].err \in {Nil} \cup RestoreReadFailures

\* C7: an EKS scale-down of a node group whose desired size and number of
\* nodes equal the requested count issues no UpdateNodegroupConfig.
C7_EKSScaleAtSizeIsNoop ==
    [][\A p \in PoolNames :
          (/\ cluster = "eks"
           /\ last'[p].op = "scale"
           /\ nodes[p].count = last'[p].count
           /\ nodeGroups[p].DesiredSize = last'[p].count)
          => Mutations(last'[p].calls) = <<>>]_vars

\* C8: an EKS restore that follows an applied restore of the same node
\* group, with no scale-down and no other change between the two, issues no
\* UpdateNodegroupConfig.
C8_EKSRestoreTwice ==
    \A p \in PoolNames :
        (cluster = "eks" /\ hist[p] = "restore" /\ last[p].op = "restore")
        => Mutations(last[p].calls) = <<>>

\* C9: a restore (GKE or EKS) of a pool that has no saved-state record
\* returns ErrNoSavedState, issues no request and changes neither live nor
\* saved state; reconcile logs it as a warning and goes on to the next
\* pool; only ErrNoSavedState is logged as a warning.
C9_NoSavedState ==
    [][\A p \in PoolNames :
          /\ (/\ \/ ReconcileStep(p, "gke", TRUE)
                 \/ ReconcileStep(p, "aws", TRUE)
              /\ ~configMaps[p].present
              /\ last'[p].err # Error("failed to get saved config"))
             => /\ last'[p].err = ErrNoSavedState
                /\ IsNoSavedStateError(last'[p].err)
                /\ last'[p].calls = <<>>
                /\ nodePools' = nodePools /\ nodeGroups' = nodeGroups
                /\ nodes' = nodes /\ configMaps' = configMaps
                /\ logs' = Append(logs, [pool |-> p, op |-> "restore",
                                         err |-> "ErrNoSavedState", level |-> "warn"])
                /\ tick' = IF tick.i = Len(config.NodeSpecs) THEN Idle
                           ELSE [tick EXCEPT !.i = @ + 1]
          /\ \A i \in 1..Len(logs') :
                logs'[i].level = "warn" /\ logs'[i].op = "restore"
                => logs'[i].err = "ErrNoSavedState"]_vars

\* the tick has logged the warning for p1 and then restored p2
C9_Witness ==
    /\ Len(logs) = 2
    /\ logs[1] = [pool |-> "p1", op |-> "restore", err |-> "ErrNoSavedState",
                  level |-> "warn"]
    /\ logs[2].pool = "p2" /\ logs[2].op = "restore"
    /\ last["p1"].err = ErrNoSavedState
    /\ last["p2"].op = "restore"
    /\ tick = Idle

\* ------------------------------------------------------------------------
\* Static provider
\* ------------------------------------------------------------------------
\* the wall-clock hour of the day and the weekday of now in a zone of offset off
WallHour(off) == (now + off) % HoursPerDay
WallWeekday(off) == ((now + off) \div HoursPerDay) % 7

\* C11: with now converted to the configured zone, the static provider answers
\* true iff the weekday in that zone is a work day and the wall-clock time is
\* strictly between startTime and endTime; exactly at startTime or at endTime
\* it answers false; on a weekday that is no work day it answers false at
\* every time of day (whatever startTime and endTime are).
C11_StaticIsWorkTime ==
    (schedule.kind = "static" /\ result.evaluated = 1)
    => \A tz \in {"UTC", "Asia/Shanghai", "America/New_York"} :
          schedule.TimeZone = tz
          => LET off == CASE tz = "UTC" -> 0
                          [] tz = "Asia/Shanghai" -> 8
                          [] tz = "America/New_York" -> -5
                 clock == [c \in {"00:00", "09:00", "17:00"} |->
                              CASE c = "00:00" -> 0 [] c = "09:00" -> 9 [] c = "17:00" -> 17]
             IN  /\ WallWeekday(off) \notin schedule.WorkDays
                    => result.isWork = FALSE /\ result.err = ""
                 /\ (/\ schedule.StartTime \in DOMAIN clock
                     /\ schedule.EndTime \in DOMAIN clock)
                    => /\ result.err = ""
                       /\ result.isWork
                          <=> /\ WallWeekday(off) \in schedule.WorkDays
                              /\ clock[schedule.StartTime] < WallHour(off)
                              /\ WallHour(off) < clock[schedule.EndTime]
                       /\ WallHour(off) = clock[schedule.StartTime] => ~result.isWork
                       /\ WallHour(off) = clock[schedule.EndTime] => ~result.isWork

\* a work day in Shanghai (Monday 09:00 there, Monday 01:00 UTC), asked
\* exactly at startTime
C11_Witness ==
    /\ schedule.kind = "static" /\ result.evaluated = 1
    /\ schedule.TimeZone = "Asia/Shanghai"
    /\ schedule.StartTime = "09:00" /\ schedule.EndTime = "17:00"
    /\ schedule.WorkDays = 1..5
    /\ now = 25
    /\ result = [isWork |-> FALSE, err |-> "", evaluated |-> 1]

\* ------------------------------------------------------------------------
\* Calendar providers
\* ------------------------------------------------------------------------
\* the events cached for the day of now, and the positions of those that
\* contain now: start <= now < end
Today == schedule.events[now \div HoursPerDay]
Containing == {i \in 1..Len(Today) : Today[i].Start <= now /\ now < Today[i].End}
IsHoliday(i) ==
    \E k \in 1..Len(schedule.holidayPatterns) :
        MatchString(schedule.holidayPatterns[k], Today[i].Summary)
IsWorkDay(i) ==
    \E k \in 1..Len(schedule.workPatterns) :
        MatchString(schedule.workPatterns[k], Today[i].Summary)

\* C12: a calendar lookup answers true when no events are cached for the day
\* of now; an event counts iff start <= now < end, so an off-time event
\* answers false from its start instant on and is left out at its end
\* instant.  (Google: every cached event is an off-time event.  ICS: the
\* holiday events are those matching a holiday pattern; a work-day event
\* containing now is set aside here.)
C12_CalendarLookup ==
    (schedule.kind \in {"google", "ics"} /\ result.evaluated = 1)
    => /\ result.err = ""
       /\ Today = <<>> => result.isWork
       /\ Containing = {} => result.isWork
       /\ schedule.kind = "google" => (result.isWork <=> Containing = {})
       /\ (/\ schedule.kind = "ics"
           /\ \A i \in Containing : IsHoliday(i) \/ ~IsWorkDay(i))
          => (result.isWork <=> ~\E i \in Containing : IsHoliday(i))

\* a Google event of a day and a half is cached for the second day and now
\* is its end instant
C12_Witness ==
    /\ schedule.kind = "google" /\ result.evaluated = 1
    /\ now = 36
    /\ schedule.events[1] = <<cachedEvent(0, 36)>>
    /\ result.isWork

\* C13: in an ICS lookup the first event that contains now and matches a
\* pattern decides: not work time if it matches a holiday pattern (also when
\* it matches a work-day pattern as well), work time otherwise; events that
\* match no pattern are passed over, and when no event matches the answer is
\* work time.
C13_ICSPatternPrecedence ==
    (schedule.kind = "ics" /\ result.evaluated = 1)
    => LET matching == {i \in Containing : IsHoliday(i) \/ IsWorkDay(i)}
           first == CHOOSE i \in matching : \A j \in matching : i <= j
       IN  /\ matching = {} => result.isWork
           /\ matching # {} => (result.isWork <=> ~IsHoliday(first))
           /\ (\E i \in matching : IsHoliday(i) /\ IsWorkDay(i) /\ i = first)
              => ~result.isWork

\* an event matching no pattern is followed by one matching both
C13_Witness ==
    /\ schedule.kind = "ics" /\ result.evaluated = 1
    /\ schedule.holidayPatterns = <<"Holiday">>
    /\ schedule.workPatterns = <<"Workday">>
    /\ Len(Today) = 2
    /\ Containing = {1, 2}
    /\ Today[1].Summary = "Meeting"
    /\ Today[2].Summary = "Holiday Workday"
    /\ ~result.isWork

\* C20: after a background refresh that fails, a Google provider's cache is
\* what it was before the refresh and an ICS provider's cache is empty.
C20_FailedRefresh ==
    [][SyncFails
       => /\ schedule.kind = "google" => schedule'.events = schedule.events
          /\ schedule.kind = "ics" => schedule'.events = NoEvents]_vars

\* ------------------------------------------------------------------------
\* Reconcile ticks and configuration updates
\* ------------------------------------------------------------------------
Operation == IF tick.isWorkTime THEN "restore" ELSE "scale"

\* pool p is listed in cfg with a cloud-provider kind that is supported
Managed(cfg, p) ==
    \E i \in 1..Len(cfg.NodeSpecs) :
        /\ cfg.NodeSpecs[i].NodePoolName = p
        /\ cfg.NodeSpecs[i].CloudProvider \in {"gke", "aws", "azure"}

\* C14: within a tick the NodeSpecs are handled one by one in the order of
\* the configuration: for a NodeSpec with a provider exactly one operation is
\* invoked, restore when the verdict is work time and scale-down with that
\* NodeSpec's offTimeCount otherwise, and for one without a provider none;
\* then the tick goes on to the next NodeSpec, whether or not the operation
\* returned an error and whether or not there was a provider.
C14_DispatchAndIsolation ==
    [][tick.pc = "pools"
       => LET spec == config.NodeSpecs[tick.i]
              p == spec.NodePoolName
          IN  /\ Len(logs) = tick.i - 1
              /\ \A k \in 1..Len(logs) :
                    /\ logs[k].pool = config.NodeSpecs[k].NodePoolName
                    /\ logs[k].op = IF providers[logs[k].pool] = "none" THEN "skip"
                                    ELSE Operation
              /\ tick' # tick
                 => /\ tick' = IF tick.i = Len(config.NodeSpecs) THEN Idle
                               ELSE [tick EXCEPT !.i = @ + 1]
                    /\ Len(logs') = tick.i /\ logs'[tick.i].pool = p
                    /\ \A k \in 1..Len(logs) : logs'[k] = logs[k]
                    /\ \A q \in PoolNames \ {p} : last'[q] = last[q]
                    /\ providers[p] # "none"
                       => /\ logs'[tick.i].op = Operation
                          /\ last'[p].op = Operation
                          /\ last'[p].count = spec.OffTimeCount
                          /\ logs'[tick.i].err = last'[p].err.type
                    /\ providers[p] = "none"
                       => /\ logs'[tick.i].op = "skip"
                          /\ last'[p] = last[p]
                    /\ config' = config /\ providers' = providers]_vars

\* restore of p1 returned an error and p2 was restored after it
C14_Witness ==
    /\ tick = Idle
    /\ Len(logs) = 2
    /\ logs[1].pool = "p1" /\ logs[1].op = "restore" /\ logs[1].level = "error"
    /\ logs[2].pool = "p2" /\ logs[2].op = "restore" /\ logs[2].level = ""
    /\ last["p2"].op = "restore"

\* C15: when the composite's evaluation returns an error, the tick invokes
\* no operation and changes nothing but the log: the cloud, the cluster, the
\* saved state and the controller's fields are as before, and the tick is
\* over, so that the next tick evaluates again.
C15_EvaluationErrorIsNoop ==
    [][(tick.pc = "idle" /\ (tick' # tick \/ logs' # logs))
       => \A outs \in [1..Len(scheduler) -> MemberResults] :
             (CompositeIsWorkTime(outs).err # "" /\ ReconcileBeginWith(outs))
             => /\ UNCHANGED worldVars
                /\ UNCHANGED <<config, providers, scheduler, returned>>
                /\ tick' = Idle
                /\ logs' = <<[pool |-> "", op |-> "isWorkTime",
                              err |-> CompositeIsWorkTime(outs).err,
                              level |-> "error"]>>]_vars

\* a tick ended at an evaluation error after p1 had been scaled down
C15_Witness ==
    /\ tick = Idle
    /\ logs = <<[pool |-> "", op |-> "isWorkTime", err |-> "InvalidTimeZone",
                 level |-> "error"]>>
    /\ last["p1"].op = "scale"
    /\ configMaps["p1"].present

FailingPart(cfg) ==
    \/ ~cfg.Schedule.GoogleCalendar.nil
       /\ cfg.Schedule.GoogleCalendar.CredentialsPath = "key.json"
    \/ ~cfg.Schedule.ICSCalendar.nil
       /\ \/ cfg.Schedule.ICSCalendar.SyncInterval = "soon"
          \/ cfg.Schedule.ICSCalendar.WorkDayPatterns = <<"(">>
    \/ \E i \in 1..Len(cfg.NodeSpecs) : cfg.NodeSpecs[i].CloudProvider = "digitalocean"

\* C17: a live update with a configuration of which one part cannot be
\* built (the Google calendar, the ICS calendar or its sync interval, the
\* cloud provider of a pool) logs the error and adopts the configuration,
\* the provider map of its other pools and the scheduler of its other parts
\* (here: the static schedule).
C17_LiveUpdateTolerant ==
    [][\A cfg \in LiveConfigs :
          (/\ UpdateConfig(cfg)
           /\ cfg.Schedule.StartTime # ""
           /\ FailingPart(cfg))
          => /\ \E i \in 1..Len(logs') : logs'[i].level = "error"
             /\ config' = cfg
             /\ providers' = initCloudProviders(cfg)
             /\ Len(scheduler') >= 1
             /\ scheduler'[1] = NewStaticProvider(cfg.Schedule.StartTime,
                                                  cfg.Schedule.EndTime,
                                                  cfg.Schedule.TimeZone, NilWorkDays)]_vars

\* C18: the provider map holds exactly the pools that the configuration
\* lists with a supported cloud-provider kind, also after an update that
\* adopts another configuration; a tick invokes no operation for a pool that
\* is not among them: a NodeSpec of an unsupported kind is logged and
\* skipped, and a pool that was removed is not visited.
C18_OnlyConfiguredPools ==
    [][/\ \A p \in PoolNames : providers[p] # "none" <=> Managed(config, p)
       /\ \A p \in PoolNames : providers'[p] # "none" <=> Managed(config', p)
       /\ \A p \in PoolNames :
             ~Managed(config, p)
             => /\ last'[p] = last[p]
                /\ (tick.pc = "pools" /\ tick' # tick
                    /\ config.NodeSpecs[tick.i].NodePoolName = p)
                   => logs' = Append(logs, [pool |-> p, op |-> "skip", err |-> "nil",
                                            level |-> "warn"])]_vars

\* p1 was scaled down as a GKE pool, an update made its kind unsupported,
\* and the next tick skipped it and scaled p2
C18_Witness ==
    /\ tick = Idle
    /\ config.NodeSpecs[1] = NodeSpec("p1", "digitalocean", 1)
    /\ providers["p1"] = "none"
    /\ last["p1"].op = "scale"
    /\ Len(logs) = 2
    /\ logs[1] = [pool |-> "p1", op |-> "skip", err |-> "nil", level |-> "warn"]
    /\ logs[2].pool = "p2" /\ logs[2].op = "restore"

\* a configuration NewScalingController is said to reject
Malformed(cfg) ==
    LET sch == cfg.Schedule IN
    \/ sch.StartTime \notin {"", "00:00", "09:00", "17:00"}
    \/ sch.EndTime \notin {"", "00:00", "09:00", "17:00"}
    \/ sch.TimeZone \notin {"", "UTC", "Asia/Shanghai", "America/New_York"}
    \/ ~sch.GoogleCalendar.nil /\ sch.GoogleCalendar.SyncInterval \notin {"", "2h"}
    \/ ~sch.ICSCalendar.nil /\ sch.ICSCalendar.SyncInterval \notin {"", "2h"}
    \/ ~sch.ICSCalendar.nil
       /\ \E i \in 1..Len(sch.ICSCalendar.WorkDayPatterns) :
             sch.ICSCalendar.WorkDayPatterns[i] = "("
    \/ \E i \in 1..Len(cfg.NodeSpecs) :
          cfg.NodeSpecs[i].CloudProvider \notin {"gke", "aws", "azure"}
    \/ /\ sch.StartTime = "" \/ sch.EndTime = "" \/ sch.TimeZone = ""
       /\ sch.GoogleCalendar.nil /\ sch.ICSCalendar.nil

\* C19: NewScalingController returns an error, and there is no controller,
\* for a configuration with an unparsable startTime or endTime, an unknown
\* time zone, an invalid pattern, an invalid sync interval, an unsupported
\* cloud-provider kind or no schedule provider.
C19_StartupRejectsMalformed ==
    (returned.call = "NewScalingController" /\ Malformed(config))
    => returned.err # "" /\ tick = Exited

\* C21: a lookup that holds the read lock sees the index as the last
\* finished refresh left it, which is the index from before the refresh now
\* in progress, if there is one; its answer is computed from that index, and
\* no refresh holds the write lock meanwhile.
C21_LookupSeesCompleteIndex ==
    /\ [](sync.lookup = "reading"
          => /\ schedule.events = sync.complete
             /\ ~WriteLocked)
    /\ [][(sync.lookup = "reading" /\ sync'.lookup = "idle")
          => LET p == [schedule EXCEPT !.events = sync.complete]
                 r == IF p.kind = "ics" THEN ICSIsWorkTime(p, now)
                      ELSE GoogleIsWorkTime(p, now)
             IN  result'.isWork = r.isWork /\ result'.err = r.err]_vars

\* a lookup reads the index while a refresh that will replace it with a
\* different, non-empty index has fetched its events and waits for the lock
C21_Witness ==
    /\ sync.lookup = "reading"
    /\ sync.pc = "fetched"
    /\ schedule.events # NoEvents
    /\ sync.items # <<>>
    /\ storeEvents(NoEvents, sync.items, 1) # schedule.events

\* C22: at most one client is constructed for a region, every call that has
\* returned holds the client stored for its region, and a stored entry is
\* never replaced.
C22_OneClientPerRegion ==
    /\ [](\A r \in Regions : eks.built[r] <= 1)
    /\ [](\A g \in Goroutines :
             eks.calls[g].pc = "returned"
             => /\ eks.calls[g].client # NoClient
                /\ eks.calls[g].client = eks.eksClients[eks.calls[g].region])
    /\ [][\A r \in Regions :
             eks.eksClients[r] # NoClient => eks'.eksClients[r] = eks.eksClients[r]]_vars

\* two goroutines missed the same region in their first lookup; one has
\* stored its client and returned, the other holds the write lock
C22_Witness ==
    \E g, h \in Goroutines :
        /\ g # h
        /\ eks.calls[g].region = eks.calls[h].region
        /\ eks.calls[g].pc = "returned"
        /\ eks.calls[g].client.n = 1
        /\ eks.calls[h].pc = "locked"
        /\ eks.calls[h].client = NoClient

\* C23: a scale-down of a pool that cannot be located (GKE: the pool is not
\* among the cluster's node pools; EKS: the node group has no nodes) returns
\* nil, unless listing the pools or the nodes failed, issues no request (no
\* drain, no save, no change of the pool) and changes nothing.
C23_UnlocatedPoolIsNoop ==
    [][\A p \in PoolNames :
          (/\ last'[p].op = "scale"
           /\ \/ cluster = "gke" /\ ~nodePools[p].present
              \/ cluster = "eks" /\ nodes[p].count = 0)
          => /\ last'[p].err \in {Nil, Error("failed to list node pools"),
                                  Error("failed to get nodes")}
             /\ last'[p].calls = <<>>
             /\ nodePools'[p] = nodePools[p]
             /\ nodeGroups'[p] = nodeGroups[p]
             /\ nodes'[p] = nodes[p]
             /\ configMaps'[p] = configMaps[p]]_vars

\* the off-time count configured for pool p
OffTimeCountOf(p) ==
    LET i == CHOOSE i \in 1..Len(config.NodeSpecs) : config.NodeSpecs[i].NodePoolName = p
    IN  config.NodeSpecs[i].OffTimeCount

\* a step of a tick whose verdict is isWorkTime and whose invocation for p1,
\* if it is one, returns nil with every request answered without error
QuietStep(isWorkTime) ==
    /\ (tick.pc = "idle" /\ (tick' # tick \/ logs' # logs))
       => (tick'.pc = "pools" /\ tick'.isWorkTime = isWorkTime)
    /\ (tick.pc = "pools" /\ tick' # tick
        /\ config.NodeSpecs[tick.i].NodePoolName = "p1")
       => StepApplied("p1")

\* pool p has the size and autoscaling of its saved-state record
Restored(p) ==
    /\ configMaps[p].present
    /\ IF cluster = "gke"
       THEN LET saved == decodeNodePoolConfig(configMaps[p].data)
            IN  IF AutoscalingOn(saved)
                THEN nodePools[p].Autoscaling = saved.Autoscaling
                ELSE nodePools[p].InitialNodeCount = saved.NodeCount
       ELSE LET saved == decodeNodeGroupConfig(configMaps[p].data)
            IN  /\ nodeGroups[p].DesiredSize = saved.DesiredSize
                /\ nodeGroups[p].MinSize = saved.Autoscaling.MinSize
                /\ nodeGroups[p].MaxSize = saved.Autoscaling.MaxSize

\* C24: if from some point on every tick's verdict is off-time and the
\* invocations for p1 return nil with no request answered busy or with an
\* error, p1 comes to have its off-time count of nodes; if from some point on
\* every verdict is work-time and the invocations return in that way, and p1
\* has a saved-state record, p1 comes to have the saved configuration.
C24_RetryNextTick ==
    /\ (<>[][QuietStep(FALSE)]_vars)
       => <>(nodes["p1"].count = OffTimeCountOf("p1"))
    /\ ((<>[][QuietStep(TRUE)]_vars) /\ <>(configMaps["p1"].present))
       => <>Restored("p1")

\* a scale-down of a later tick has set the size of p1, which an earlier
\* tick had left at saving the state and disabling autoscaling
C24_Witness ==
    /\ cluster = "gke"
    /\ last["p1"].op = "scale" /\ last["p1"].err = Nil
    /\ HasCall(last["p1"], "CreateConfigMap", "exists")
    /\ HasCall(last["p1"], "SetSize", "ok")
    /\ ~\E i \in 1..Len(last["p1"].calls) : last["p1"].calls[i].api = "SetAutoscaling"
    /\ AutoscalingOn(decodeNodePoolConfig(configMaps["p1"].data))
    /\ nodePools["p1"].InitialNodeCount = OffTimeCountOf("p1")

\* a step of a tick whose verdict is work-time and in which every request of
\* the restore of p1, if it is one, is answered without error
RestoreCallsSucceed ==
    /\ (tick.pc = "idle" /\ (tick' # tick \/ logs' # logs))
       => (tick'.pc = "pools" /\ tick'.isWorkTime)
    /\ (tick.pc = "pools" /\ tick' # tick
        /\ config.NodeSpecs[tick.i].NodePoolName = "p1")
       => LET count == config.NodeSpecs[tick.i].OffTimeCount
              ok == IF providers["p1"] = "gke"
                    THEN [pre |-> "none", api |-> NoApiError]
                    ELSE [pre |-> "none"]
          IN  last'["p1"] = Invocation("restore", count,
                                       Invoke(providers["p1"], TRUE, World("p1"), count, ok))

\* the last invocation for p is a scale-down that changed the pool, every
\* request answered without error
ScaledDown(p) ==
    /\ last[p].op = "scale" /\ last[p].err = Nil /\ Applied(last[p])
    /\ Mutations(last[p].calls) # <<>>

\* C25: for every off-time count from 0 on, GKE and EKS: after a scale-down
\* of p1 that completed, if from some point on every verdict is work-time and
\* every request is answered without error, p1 comes to have the saved
\* configuration.
C25_AutoRestore ==
    (<>[][RestoreCallsSucceed]_vars) => (ScaledDown("p1") ~> Restored("p1"))

\* the pod is one DrainNode(nodeName) is to delete
ToDelete(pod, nodeName) == pod.NodeName = nodeName /\ pod.Namespace # "kube-system"

\* what C26 says but for the return value: one Delete request for every pod
\* on the node outside kube-system, whatever the earlier requests were
\* answered, and none for any other pod; none at all when the call failed
DeletesEachOnce ==
    \A i \in 1..Len(drain.pods) :
        drain.pods[i].deletes =
            IF drain.err = "" /\ ToDelete(drain.pods[i], drain.nodeName) THEN 1 ELSE 0

SetsSize(call) ==
    \/ call.api = "SetSize"
    \/ call.api = "UpdateNodegroupConfig" /\ call.n # -1

\* C27: in a scale-down (GKE or EKS) no node is drained after a request that
\* sets the pool's desired size, and SetSize is issued only for a pool whose
\* autoscaling was not enabled or has been disabled by a SetAutoscaling
\* request answered without error (not one answered busy).
C27_ScaleDownOrder ==
    [][\A p \in PoolNames :
          last'[p].op = "scale"
          => /\ \A i, j \in 1..Len(last'[p].calls) :
                   (i < j /\ SetsSize(last'[p].calls[i]))
                   => last'[p].calls[j].api # "DrainNode"
             /\ (\E i \in 1..Len(last'[p].calls) : last'[p].calls[i].api = "SetSize")
                => \/ ~AutoscalingOn(nodePools[p])
                   \/ HasCall(last'[p], "SetAutoscaling", "ok")]_vars

\* the record a scale-down of pool p would write for the pool as it is
RecordOfPool(p) ==
    IF cluster = "gke"
    THEN encodeNodePoolConfig([NodeCount |-> nodePools[p].InitialNodeCount,
                               Autoscaling |-> nodePools[p].Autoscaling])
    ELSE encodeNodeGroupConfig([DesiredSize |-> nodeGroups[p].DesiredSize,
                                Autoscaling |-> [nil |-> FALSE,
                                                 MinSize |-> nodeGroups[p].MinSize,
                                                 MaxSize |-> nodeGroups[p].MaxSize]])

EnabledIn(as) == ~as.nil /\ as.Enabled

\* the saved and the live state of a GKE pool are the same to a restore:
\* the same enabled-ness and, with saved autoscaling not enabled, the same
\* count
SameToRestore(saved, live) ==
    /\ EnabledIn(saved.Autoscaling) = EnabledIn(live.Autoscaling)
    /\ ~EnabledIn(saved.Autoscaling) => saved.NodeCount = live.InitialNodeCount

\* C29: a GKE restore that read the record and found the pool issues no
\* SetSize and no SetAutoscaling exactly when saved and live state have the
\* same enabled-ness (an absent block and enabled=false are both disabled)
\* and, with saved autoscaling not enabled, the same count; otherwise it
\* issues one request: SetAutoscaling with the saved settings when the saved
\* autoscaling is enabled, else SetSize with the saved count.
C29_GKERestoreDecision ==
    [][(/\ GKERestore("p1")
        /\ configMaps["p1"].present /\ nodePools["p1"].present
        /\ last'["p1"].err.msg \notin {"failed to get saved config",
                                       "failed to list node pools"})
       => LET saved == decodeNodePoolConfig(configMaps["p1"].data)
              live == nodePools["p1"]
              calls == Mutations(last'["p1"].calls)
          IN  IF SameToRestore(saved, live)
              THEN calls = <<>>
              ELSE /\ Len(calls) = 1
                   /\ IF EnabledIn(saved.Autoscaling)
                      THEN /\ calls[1].api = "SetAutoscaling"
                           /\ calls[1].enabled
                           /\ calls[1].min = saved.Autoscaling.MinNodeCount
                           /\ calls[1].max = saved.Autoscaling.MaxNodeCount
                      ELSE /\ calls[1].api = "SetSize"
                           /\ calls[1].n = saved.NodeCount]_vars

\* every event of the cache, whatever the days it is stored under
CachedEvents ==
    UNION {{schedule.events[key][i] : i \in 1..Len(schedule.events[key])} : key \in DateKeys}

\* the calendar day of a date key intersects the event's [start, end)
Intersects(event, key) ==
    event.Start < (key + 1) * HoursPerDay /\ key * HoursPerDay < event.End

AllContaining == {event \in CachedEvents : Contains(event, now)}

\* C30: every cached event is stored under the date key of every day that
\* its [start, end) intersects, and a lookup through the day of now answers
\* as a scan of all cached events for one containing now does (Google: work
\* time iff none contains now; ICS: a holiday event containing now, with no
\* work-day event containing now, answers off time).
C30_IndexIsComplete ==
    schedule.kind \in {"google", "ics"}
    => /\ \A event \in CachedEvents, key \in DateKeys :
             Intersects(event, key)
             => \E i \in 1..Len(schedule.events[key]) : schedule.events[key][i] = event
       /\ (schedule.kind = "google" /\ result.evaluated = 1)
          => (result.isWork <=> AllContaining = {})
       /\ (/\ schedule.kind = "ics" /\ result.evaluated = 1
           /\ \E event \in AllContaining :
                 MatchesAny(schedule.holidayPatterns, event.Summary)
           /\ \A event \in AllContaining :
                 ~MatchesAny(schedule.workPatterns, event.Summary))
          => ~result.isWork

\* a reconcile invocation is waiting for a cloud provider's scale-down or
\* restore to return
ProviderCallInProgress ==
    \E k \in 1..Len(goroutines.reconcile) :
        /\ goroutines.reconcile[k].pc = "provider"
        /\ providers[config.NodeSpecs[goroutines.reconcile[k].i].NodePoolName]
              \in {"gke", "aws"}

\* an UpdateConfig is in initScheduleProviders, where the constructor of a
\* calendar provider fetches the calendar
CalendarFetchInProgress ==
    \E w \in Watchers :
        /\ goroutines.update[w].pc = "initScheduleProviders"
        /\ Constructed(goroutines.update[w].cfg, TRUE) # <<>>

\* C31: while the controller lock is held, for reading or for writing, no
\* cloud-provider scale-down or restore call and no calendar fetch is in
\* progress.
C31_LockScope ==
    (goroutines.mu.readers > 0 \/ goroutines.mu.writer)
    => ~ProviderCallInProgress /\ ~CalendarFetchInProgress

\* C35: at most one reconcile invocation is in progress, and Run calls
\* reconcile only when none is.
C35_TicksDoNotOverlap ==
    /\ [](Len(goroutines.reconcile) <= 1)
    /\ [][Len(goroutines'.reconcile) > Len(goroutines.reconcile)
          => Len(goroutines.reconcile) = 0]_vars

\* a tick is at its second provider call, Run has not returned from it, and
\* an UpdateConfig waits for the lock
C35_Witness ==
    /\ Len(goroutines.reconcile) = 1
    /\ goroutines.reconcile[1].pc = "provider" /\ goroutines.reconcile[1].i = 2
    /\ goroutines.run = "reconcile"
    /\ goroutines.update["watchFile"].pc = "Lock"

\* the calendar providers among the members of the current scheduler
CalendarProviders ==
    {i \in 1..Len(scheduler) : scheduler[i].kind \in {"google", "ics"}}

\* C32: when no UpdateConfig is in progress, the number of backgroundSync
\* goroutines running equals the number of calendar providers in the
\* current scheduler.
C32_TasksOfLiveProviders ==
    (\A w \in Watchers : goroutines.update[w].pc = "none")
    => backgroundSync = Cardinality(CalendarProviders)

\* C33: in an EKS scale-down or restore, every UpdateNodegroupConfig request
\* comes after a wait for the node group to be active that succeeded in the
\* same invocation; an invocation whose wait failed has issued no
\* UpdateNodegroupConfig and returns an error.
C33_WaitBeforeUpdate ==
    \A p \in PoolNames :
        (cluster = "eks" /\ last[p].op \in {"scale", "restore"})
        => LET calls == last[p].calls IN
           /\ \A i \in 1..Len(calls) :
                 calls[i].api = "UpdateNodegroupConfig"
                 => \E j \in 1..(i - 1) :
                       calls[j].api = "Wait" /\ calls[j].outcome = "ok"
           /\ HasCall(last[p], "Wait", "err")
              => Mutations(calls) = <<>> /\ last[p].err # Nil

\* the scale-down and restore lines of the tick's log
ProviderLines == {i \in 1..Len(logs) : logs[i].op \in {"scale", "restore"}}

\* C34: the pool names of the configuration the controller holds are
\* pairwise different, the provider map has one entry per NodeSpec, and a
\* reconcile tick issues at most one scale-down or restore per pool name.
C34_UniquePoolNames ==
    /\ \A i, j \in 1..Len(config.NodeSpecs) :
          i # j => config.NodeSpecs[i].NodePoolName # config.NodeSpecs[j].NodePoolName
    /\ Cardinality({p \in PoolNames : providers[p] # "none"}) = Len(config.NodeSpecs)
    /\ \A i, j \in ProviderLines : i # j => logs[i].pool # logs[j].pool

\* C40: a change whose document cannot be read, parsed or validated leads
\* to no callback call and leaves the controller's configuration, provider
\* map and scheduler as they are; a change whose document is valid leads to
\* one call of every registered callback with the configuration read, in
\* the order of registration.
C40_OnlyValidIsDelivered ==
    [][\A source \in Watchers, doc \in Documents :
          Reload(source, doc)
          => LET r == IF source = "watchFile" THEN ReadConfig(doc)
                      ELSE ReadConfigFromBytes(doc)
             IN  IF doc.fault # "" \/ r.err # ""
                 THEN /\ watcher'.calls = <<>>
                      /\ UNCHANGED <<config, providers, scheduler>>
                 ELSE /\ Len(watcher'.calls) = Len(watcher.callbacks)
                      /\ \A k \in 1..Len(watcher.callbacks) :
                            /\ watcher'.calls[k].callback = watcher.callbacks[k]
                            /\ watcher'.calls[k].cfg = r.cfg]_vars

\* a valid document was delivered to the two callbacks, the one registered
\* first called first, and the controller holds its configuration, with the
\* defaults filled in
C40_Witness ==
    /\ watcher.callbacks = <<"other", "UpdateConfig">>
    /\ Len(watcher.calls) = 2
    /\ watcher.calls[1].callback = "other" /\ watcher.calls[2].callback = "UpdateConfig"
    /\ watcher.calls[2].cfg = config
    /\ config = Config(setDefaults(EveryDay), <<NodeSpec("p2", "azure", 1)>>)
    /\ returned.call = "UpdateConfig"

\* ------------------------------------------------------------------------
\* C36: an UpdateConfig that ends because initScheduleProviders returned an
\* error leaves the stored configuration, the provider map and the scheduler
\* as they were, and with them everything a later reconcile tick reads: the
\* clusters, the saved records and the position of the tick
AbortsUpdate(cfg) == initScheduleProviders(scheduler, cfg, TRUE).err # ""

C36_FailedUpdateChangesNothing ==
    [][\A cfg \in LiveConfigs :
          (UpdateConfig(cfg) /\ AbortsUpdate(cfg))
          => UNCHANGED <<config, providers, scheduler, worldVars, tick>>]_vars

\* UpdateConfig has been called, and the configuration in force is one that
\* only NewScalingController can have stored: every update so far was
\* abandoned; some of the configurations offered differ in their pools
C36_Witness ==
    /\ returned.call = "UpdateConfig"
    /\ config \notin LiveConfigs
    /\ \E cfg \in LiveConfigs : AbortsUpdate(cfg) /\ cfg.NodeSpecs # config.NodeSpecs

\* ------------------------------------------------------------------------
\* A run of work-time ticks of one GKE pool, with an operator at work: the
\* operator's changes are remembered as such, so that a restore can be told
\* to follow an earlier restore of the same run
\* ------------------------------------------------------------------------
External == [NoInvocation EXCEPT !.op = "external"]

\* an operator resizes the pool or changes its autoscaling; the provider
\* invocation before it stays on record
OperatorChange(p) ==
    /\ cluster = "gke" /\ nodePools[p].present
    /\ \E n \in Sizes, as \in AutoscalingValues :
          /\ NodePool(n, as) # nodePools[p]
          /\ nodePools' = [nodePools EXCEPT ![p] = NodePool(n, as)]
    /\ last' = [last EXCEPT ![p] = External]
    /\ hist' = [hist EXCEPT ![p] = IF last[p] = External THEN @ ELSE Summary(last[p])]
    /\ UNCHANGED <<cluster, nodeGroups, nodes, configMaps>>

NextRestoreRun ==
    \/ GKEScale("p1") /\ UNCHANGED <<controllerVars, compositeVars, sideVars>>
    \/ GKERestore("p1") /\ UNCHANGED <<controllerVars, compositeVars, sideVars>>
    \/ NodesConverge("p1") /\ UNCHANGED <<controllerVars, compositeVars, sideVars>>
    \/ OperatorChange("p1") /\ UNCHANGED <<controllerVars, compositeVars, sideVars>>

SpecRestoreRun == InitGKE /\ [][NextRestoreRun]_vars

\* the provider invocation before this one was a restore that took effect,
\* and since then at most the operator has changed the pool
RestoredInThisRun(p) ==
    \/ Summary(last[p]) = "restore"
    \/ last[p] = External /\ hist[p] = "restore"

\* C37: in a run of work-time ticks, once a restore of a GKE pool has taken
\* effect, a later restore issues no SetSize and no SetAutoscaling request,
\* whether or not the pool's size or autoscaling was changed in between
C37_RestoreOnlyUndoesScaleDown ==
    [][(GKERestore("p1") /\ RestoredInThisRun("p1"))
       => Mutations(last'["p1"].calls) = <<>>]_vars

\* ------------------------------------------------------------------------
\* C38: when some cached event that contains now has a label matching a
\* holiday pattern, the ICS lookup answers not work time, wherever the event
\* stands in its list and whatever other events contain now
C38_HolidayWinsAcrossEvents ==
    (/\ schedule.kind = "ics" /\ result.evaluated = 1
     /\ \E e \in CachedEvents :
           Contains(e, now) /\ MatchesAny(schedule.holidayPatterns, e.Summary))
    => ~result.isWork

\* ------------------------------------------------------------------------
\* C39: a static provider whose startTime is equal to or later than its
\* endTime (both valid clock values, in a zone that loads) answers not work
\* time at every instant of every weekday, and returns no error
C39_WindowNotForward ==
    (/\ schedule.kind = "static" /\ result.evaluated = 1
     /\ LoadLocation(schedule.TimeZone).err = ""
     /\ ParseInLocation(schedule.StartTime).err = ""
     /\ ParseInLocation(schedule.EndTime).err = ""
     /\ ParseInLocation(schedule.StartTime).Hour >= ParseInLocation(schedule.EndTime).Hour)
    => result.isWork = FALSE /\ result.err = ""

\* a window from 17:00 to 09:00 on every weekday, asked on a Sunday at 20:00
C39_Witness ==
    /\ schedule.kind = "static" /\ result.evaluated = 1
    /\ schedule.TimeZone = "UTC"
    /\ schedule.StartTime = "17:00" /\ schedule.EndTime = "09:00"
    /\ schedule.WorkDays = Weekdays
    /\ now = 20
    /\ result = [isWork |-> FALSE, err |-> "", evaluated |-> 1]

====
